---------------------------- MODULE Spec2Model ----------------------------
(***************************************************************************)
(* The DAG-spawn test program of script/testdata (spawn_dag.c) with its    *)
(* escape codec (spawn_dag_escape_encoding.h) and the accessors of the     *)
(* generated graph schema (spawn_dag.h).                                   *)
(*                                                                         *)
(* Every process instance runs main() of spawn_dag.c.  A 64-bit value is   *)
(* kept as the 8 bytes it occupies in (little-endian) memory, which is how *)
(* the program reads and writes it, through a uint64_t pointer.            *)
(***************************************************************************)
EXTENDS Integers, Sequences, FiniteSets, TLC

(***************************************************************************)
(* Bounds of the model.                                                    *)
(***************************************************************************)
\* process instances the spawn primitive admits before it reports an error
MaxProcs == 4
\* failures the primitives may report in one run (when the run allows any)
MaxFaults == 1
\* registry ceiling of the model; the source sets 3200 (spawn_dag.c:10)
MAX_PIPE_COUNT == 4
\* spawn ceiling of the model; the source sets 1024 (spawn_dag.c:11)
MAX_SPAWNED_VMS == 2
\* the longest buffer the codec is run on
MaxLen == 3

(***************************************************************************)
(* Program constants.                                                      *)
(***************************************************************************)
CKB_SUCCESS == 0
_BASE_ERROR_CODE == 42
ERROR_NO_SPACE_FOR_PIPES == _BASE_ERROR_CODE + 1
ERROR_NOT_FOUND == _BASE_ERROR_CODE + 2
ERROR_ENCODING == _BASE_ERROR_CODE + 3
ERROR_ARGV == _BASE_ERROR_CODE + 4
ERROR_TOO_MANY_SPAWNS == _BASE_ERROR_CODE + 5
ERROR_PIPE_CLOSED == _BASE_ERROR_CODE + 6
ERROR_CORRUPTED_DATA == _BASE_ERROR_CODE + 7
ESCAPE_ERROR_ENCODING == 1
MOL_NUM_T_SIZE == 4

Byte == 0..255

\* uint8_t arithmetic wraps modulo 256
U8(n) == n % 256

\* the int8_t a process exit status (and ckb_wait's exit_code) is cut to
ToInt8(n) == LET m == n % 256 IN IF m >= 128 THEN m - 256 ELSE m

\* the 8 bytes of the uint64_t whose two low bytes are lo and hi
U64(lo, hi) == <<lo, hi, 0, 0, 0, 0, 0, 0>>

\* mol_pack_number: a 32-bit count as 4 little-endian bytes
mol_pack_number(n) ==
  <<n % 256, (n \div 256) % 256, (n \div 65536) % 256, (n \div 16777216) % 256>>

RECURSIVE Flatten(_)
\* the memory image of an array of uint64_t
Flatten(words) ==
  IF words = <<>> THEN <<>> ELSE Head(words) \o Flatten(Tail(words))

(***************************************************************************)
(* Escape codec (spawn_dag_escape_encoding.h).                             *)
(***************************************************************************)
ee_maximum_encoding_length(length) == length * 2

\* The loops below are run pass by pass on a loop state st = (ss, dst, ret,
\* done): done is set by the pass that finds the loop condition false or
\* returns from inside the loop, and a pass leaves a done state as it is.
\* Every pass but the last one moves ss forward, so Len(src) + 1 passes run
\* a loop to its end; n passes are the first half of them and then the rest,
\* the state between the two bound as a value.

\* one pass of the while loop of ee_encode (l.61-77); special holds the
\* bytes that are escaped
ee_encode_pass(src, dl, special, st) ==
  IF st.done THEN st
  ELSE IF ~(st.ss < Len(src) /\ Len(st.dst) < dl) THEN [st EXCEPT !.done = TRUE]
  ELSE IF src[st.ss + 1] \in special
    THEN IF Len(st.dst) + 1 >= dl THEN [st EXCEPT !.done = TRUE]
         ELSE [st EXCEPT !.ss = @ + 1,
                         !.dst = @ \o <<254, U8(src[st.ss + 1] + 255)>>]
  ELSE [st EXCEPT !.ss = @ + 1, !.dst = @ \o <<src[st.ss + 1]>>]

RECURSIVE ee_encode_loop(_, _, _, _, _)
ee_encode_loop(src, dl, special, st, n) ==
  IF n = 0 THEN st
  ELSE IF n = 1 THEN ee_encode_pass(src, dl, special, st)
  ELSE CHOOSE r \in
         {ee_encode_loop(src, dl, special, half, n - n \div 2) :
            half \in {ee_encode_loop(src, dl, special, st, n \div 2)}} : TRUE

\* ee_encode with *dst_length = dl and *src_length = Len(src), escaping the
\* bytes in special
ee_encode_of(src, dl, special) ==
  CHOOSE r \in
    {[ret |-> st.ret, dst |-> st.dst, dst_length |-> Len(st.dst), src_length |-> st.ss] :
       st \in {ee_encode_loop(src, dl, special,
                              [ss |-> 0, dst |-> <<>>, ret |-> 0, done |-> FALSE],
                              Len(src) + 1)}} : TRUE

\* an encoder that escapes 0x00 and emits the marker 0xFE as it is
ee_encode_zero_only(src, dl) == ee_encode_of(src, dl, {0})

\* an encoder that keeps one byte of the destination free
ee_encode_one_short(src, dl) == ee_encode_of(src, dl - 1, {0, 254})

\* an encoder that writes the marker of a pair into the last free byte
ee_encode_half_pair(src, dl) ==
  LET r == ee_encode_of(src, dl, {0, 254})
  IN IF r.src_length < Len(src) /\ r.dst_length + 1 = dl
       THEN [r EXCEPT !.dst = @ \o <<254>>, !.dst_length = @ + 1]
       ELSE r

\* ee_encode with *dst_length = dl and *src_length = Len(src)
ee_encode(src, dl) == ee_encode_of(src, dl, {0, 254})

\* one pass of the while loop of ee_decode (l.17-31); dangling is what the
\* loop returns at a marker that ends the source
ee_decode_pass(src, dl, dangling, st) ==
  IF st.done THEN st
  ELSE IF ~(st.ss < Len(src) /\ Len(st.dst) < dl) THEN [st EXCEPT !.done = TRUE]
  ELSE IF src[st.ss + 1] = 254
    THEN IF st.ss + 1 >= Len(src) THEN [st EXCEPT !.ret = dangling, !.done = TRUE]
         ELSE [st EXCEPT !.ss = @ + 2, !.dst = @ \o <<U8(src[st.ss + 2] + 1)>>]
  ELSE [st EXCEPT !.ss = @ + 1, !.dst = @ \o <<src[st.ss + 1]>>]

RECURSIVE ee_decode_loop(_, _, _, _, _)
ee_decode_loop(src, dl, dangling, st, n) ==
  IF n = 0 THEN st
  ELSE IF n = 1 THEN ee_decode_pass(src, dl, dangling, st)
  ELSE CHOOSE r \in
         {ee_decode_loop(src, dl, dangling, half, n - n \div 2) :
            half \in {ee_decode_loop(src, dl, dangling, st, n \div 2)}} : TRUE

\* ee_decode with *dst_length = dl and *src_length = Len(src), returning
\* dangling at a marker that ends the source
ee_decode_of(src, dl, dangling) ==
  CHOOSE r \in
    {[ret |-> st.ret, dst |-> st.dst, dst_length |-> Len(st.dst), src_length |-> st.ss] :
       st \in {ee_decode_loop(src, dl, dangling,
                              [ss |-> 0, dst |-> <<>>, ret |-> 0, done |-> FALSE],
                              Len(src) + 1)}} : TRUE

\* a decoder that stops at a marker without a following byte and returns 0
ee_decode_lenient(src, dl) == ee_decode_of(src, dl, 0)

\* ee_decode with *dst_length = dl and *src_length = Len(src)
ee_decode(src, dl) == ee_decode_of(src, dl, ESCAPE_ERROR_ENCODING)

\* what a char* argument holds: the bytes before the first NUL
CString(bytes) ==
  LET nul == {k \in 1..Len(bytes) : bytes[k] = 0}
  IN IF nul = {} THEN bytes
     ELSE SubSeq(bytes, 1, (CHOOSE k \in nul : \A l \in nul : k <= l) - 1)

\* one pass of the while loop of ee_decode_char_string_in_place (l.41-51);
\* buf holds the string without its terminator, so buf[ss] == '\0' is
\* ss = Len(buf), and dst holds the bytes written to the front of the buffer
ee_decode_in_place_pass(buf, st) ==
  IF st.done THEN st
  ELSE IF ~(st.ss < Len(buf)) THEN [st EXCEPT !.done = TRUE]
  ELSE IF buf[st.ss + 1] = 254
    THEN IF st.ss + 1 >= Len(buf)
           THEN [st EXCEPT !.ret = ESCAPE_ERROR_ENCODING, !.done = TRUE]
         ELSE [st EXCEPT !.ss = @ + 2, !.dst = @ \o <<U8(buf[st.ss + 2] + 1)>>]
  ELSE [st EXCEPT !.ss = @ + 1, !.dst = @ \o <<buf[st.ss + 1]>>]

RECURSIVE ee_decode_in_place_loop(_, _, _)
ee_decode_in_place_loop(buf, st, n) ==
  IF n = 0 THEN st
  ELSE IF n = 1 THEN ee_decode_in_place_pass(buf, st)
  ELSE CHOOSE r \in
         {ee_decode_in_place_loop(buf, half, n - n \div 2) :
            half \in {ee_decode_in_place_loop(buf, st, n \div 2)}} : TRUE

\* a string decode that takes every byte of the string for a plain byte
ee_decode_char_string_plain(buf) == [ret |-> 0, buf |-> buf, length |-> Len(buf)]

ee_decode_char_string_in_place(buf) ==
  CHOOSE r \in
    {[ret |-> st.ret, buf |-> st.dst, length |-> Len(st.dst)] :
       st \in {ee_decode_in_place_loop(buf,
                                       [ss |-> 0, dst |-> <<>>, ret |-> 0, done |-> FALSE],
                                       Len(buf) + 1)}} : TRUE

(***************************************************************************)
(* Pipe registry (spawn_dag.c, pipes_t).  ids keeps the zero entry the     *)
(* code stores after the last handle.                                      *)
(***************************************************************************)
Zero64 == U64(0, 0)

pipes_init == [indices |-> <<>>, ids |-> <<Zero64>>, used |-> 0]

\* an Add that takes one entry more than the registry has room for
pipes_add_one_more(pipes, index, id) ==
  IF pipes.used > MAX_PIPE_COUNT
    THEN [ret |-> ERROR_NO_SPACE_FOR_PIPES, pipes |-> pipes]
    ELSE [ret |-> CKB_SUCCESS,
          pipes |-> [indices |-> Append(pipes.indices, index),
                     ids |-> SubSeq(pipes.ids, 1, pipes.used) \o <<id, Zero64>>,
                     used |-> pipes.used + 1]]

\* an Add that stores the handle and leaves the slot after it as it was
pipes_add_unterminated(pipes, index, id) ==
  IF pipes.used >= MAX_PIPE_COUNT
    THEN [ret |-> ERROR_NO_SPACE_FOR_PIPES, pipes |-> pipes]
    ELSE [ret |-> CKB_SUCCESS,
          pipes |-> [indices |-> Append(pipes.indices, index),
                     ids |-> SubSeq(pipes.ids, 1, pipes.used) \o <<id, id>>,
                     used |-> pipes.used + 1]]

pipes_add(pipes, index, id) ==
  IF pipes.used >= MAX_PIPE_COUNT
    THEN [ret |-> ERROR_NO_SPACE_FOR_PIPES, pipes |-> pipes]
    ELSE [ret |-> CKB_SUCCESS,
          pipes |-> [indices |-> Append(pipes.indices, index),
                     ids |-> SubSeq(pipes.ids, 1, pipes.used) \o <<id, Zero64>>,
                     used |-> pipes.used + 1]]

RECURSIVE pipes_find_loop(_, _, _)
pipes_find_loop(pipes, index, i) ==
  IF ~(i < pipes.used) THEN [ret |-> ERROR_NOT_FOUND, id |-> Zero64]
  ELSE IF pipes.indices[i + 1] = index
    THEN [ret |-> CKB_SUCCESS, id |-> pipes.ids[i + 1]]
    ELSE pipes_find_loop(pipes, index, i + 1)

RECURSIVE pipes_find_last_loop(_, _, _)
pipes_find_last_loop(pipes, index, i) ==
  IF i = 0 THEN [ret |-> ERROR_NOT_FOUND, id |-> Zero64]
  ELSE IF pipes.indices[i] = index
    THEN [ret |-> CKB_SUCCESS, id |-> pipes.ids[i]]
    ELSE pipes_find_last_loop(pipes, index, i - 1)

\* a lookup that returns the handle added last for the index
pipes_find_last(pipes, index) == pipes_find_last_loop(pipes, index, pipes.used)

\* a lookup whose loop starts at the second entry
pipes_find_from_second(pipes, index) == pipes_find_loop(pipes, index, 1)

pipes_find(pipes, index) == pipes_find_loop(pipes, index, 0)

(***************************************************************************)
(* Graph descriptor (spawn_dag.h).  A descriptor is the decoded table      *)
(*   spawns: (from, child, fds)   pipes: (vm, read_fd, write_fd)           *)
(*   writes: (from, from_fd, to, to_fd, data)                              *)
(* where data holds the items of the Bytes field.                          *)
(***************************************************************************)
\* the slice of a Bytes field inside its table: the 4-byte item count,
\* then the items (an empty Bytes is MolDefault_Bytes, 4 zero bytes)
BytesField(items) == mol_pack_number(Len(items)) \o items

\* mol_table_slice_by_index(s, 4) of a Write: the whole Bytes field
MolReader_Write_get_data(write) == BytesField(write.data)

\* mol_fixvec_slice_raw_bytes: the items without the count
MolReader_Bytes_raw_bytes(seg) == SubSeq(seg, MOL_NUM_T_SIZE + 1, Len(seg))

MolReader_Spawn_get_pipes(spawn) == spawn.fds
MolReader_PipeIndices_length(seg) == Len(seg)

Spawn(from, child, fds) == [from |-> from, child |-> child, fds |-> fds]
Pipe(vm, r, w) == [vm |-> vm, read_fd |-> r, write_fd |-> w]
Write(from, from_fd, to, to_fd, data) ==
  [from |-> from, from_fd |-> from_fd, to |-> to, to_fd |-> to_fd, data |-> data]
Data(spawns, pipes, writes) ==
  [spawns |-> spawns, pipes |-> pipes, writes |-> writes]

(***************************************************************************)
(* The graphs the runs are started on.                                     *)
(***************************************************************************)
\* node indices: the root, and indices whose bytes hold 0x00 and 0xFE
Root == Zero64
NodeA == U64(1, 0)
NodeB == U64(254, 0)
NodeC == U64(0, 254)
\* pipe indices (read and write index of two pipes), and one nobody creates
R1 == U64(10, 0)
W1 == U64(11, 0)
R2 == U64(0, 1)
W2 == U64(254, 254)
Unknown == U64(99, 0)
\* a node index no spawn entry names
Nobody == U64(77, 0)

HelloWorld == <<72, 101, 108, 108, 111, 32, 87, 111, 114, 108, 100, 33>>

\* one pipe owned by the root, its read end visible to one child, one write
GraphHello ==
  Data(<<Spawn(Root, NodeA, <<R1>>)>>,
       <<Pipe(Root, R1, W1)>>,
       <<Write(Root, W1, NodeA, R1, HelloWorld)>>)

\* root -> A -> B; the root owns both pipes and talks with its grandchild
GraphChain ==
  Data(<<Spawn(Root, NodeA, <<R1, W2>>), Spawn(NodeA, NodeB, <<W2, R1>>)>>,
       <<Pipe(Root, R1, W1), Pipe(Root, R2, W2)>>,
       <<Write(Root, W1, NodeB, R1, <<7>>), Write(NodeB, W2, Root, R2, <<254, 0>>)>>)

\* two siblings talk over a pipe of their parent; the second owns one more
GraphFan ==
  Data(<<Spawn(Root, NodeB, <<W1>>), Spawn(Root, NodeC, <<R1>>)>>,
       <<Pipe(Root, R1, W1), Pipe(NodeC, R2, W2)>>,
       <<Write(NodeB, W1, NodeC, R1, <<>>), Write(NodeB, W1, NodeC, R1, <<1>>)>>)

\* the second spawn entry lists a pipe index the root does not hold
GraphNotFound ==
  Data(<<Spawn(Root, NodeA, <<R1>>), Spawn(Root, NodeB, <<R1, Unknown>>),
         Spawn(Root, NodeC, <<>>)>>,
       <<Pipe(Root, R1, W1)>>,
       <<>>)

\* the child spawned first is to write on a pipe it was never given
GraphFirstChildFails ==
  Data(<<Spawn(Root, NodeA, <<>>), Spawn(Root, NodeB, <<>>)>>,
       <<Pipe(Root, R1, W1)>>,
       <<Write(NodeA, W1, Nobody, R1, <<5>>)>>)

\* the child spawned last is to write on a pipe it was never given
GraphLastChildFails ==
  Data(<<Spawn(Root, NodeA, <<>>), Spawn(Root, NodeB, <<>>)>>,
       <<Pipe(Root, R1, W1)>>,
       <<Write(NodeB, W1, Nobody, R1, <<5>>)>>)

\* a grandchild is to write on a pipe it was never given
GraphGrandchildFails ==
  Data(<<Spawn(Root, NodeA, <<>>), Spawn(NodeA, NodeB, <<>>)>>,
       <<>>,
       <<Write(NodeB, W1, Nobody, R1, <<5>>)>>)

\* a write entry whose sender is also its receiver; the child reads from the
\* pipe for an entry whose sender no spawn entry names
GraphSelf ==
  Data(<<Spawn(Root, NodeA, <<R1>>)>>,
       <<Pipe(Root, R1, W1)>>,
       <<Write(Root, W1, Root, R1, <<5>>), Write(Nobody, W1, NodeA, R1, <<5>>)>>)

\* a spawn entry lists more indices the root holds than a registry takes,
\* and after them one it does not hold
GraphNotFoundLate ==
  Data(<<Spawn(Root, NodeA, [k \in 1..(MAX_PIPE_COUNT + 1) |-> R1] \o <<Unknown>>)>>,
       <<Pipe(Root, R1, W1)>>,
       <<>>)

\* the root reaches its spawn ceiling, and the next entry lists a pipe index
\* it does not hold
GraphNotFoundThird ==
  Data([k \in 1..MAX_SPAWNED_VMS |-> Spawn(Root, U64(k, 0), <<>>)]
         \o <<Spawn(Root, NodeC, <<Unknown>>)>>,
       <<>>,
       <<>>)

\* two spawn entries name the same child, with different pipe lists
GraphTwice ==
  Data(<<Spawn(Root, NodeA, <<R1>>), Spawn(Root, NodeA, <<>>)>>,
       <<Pipe(Root, R1, W1)>>,
       <<>>)

\* two pipes of the root have the same read index
GraphSameIndex ==
  Data(<<Spawn(Root, NodeA, <<R1>>)>>,
       <<Pipe(Root, R1, W1), Pipe(Root, R1, W2)>>,
       <<Write(Root, W1, NodeA, R1, <<9>>)>>)

\* a child is given all the entries its registry takes but one, and owns a pipe
GraphFull ==
  Data(<<Spawn(Root, NodeA, [k \in 1..(MAX_PIPE_COUNT - 1) |-> R1])>>,
       <<Pipe(Root, R1, W1), Pipe(NodeA, R2, W2)>>,
       <<>>)

\* the child spawned first is given both ends of a pipe and writes to a node
\* that no spawn entry names, and the child spawned last is to write on a
\* pipe it was never given
GraphNoReader ==
  Data(<<Spawn(Root, NodeA, <<R1, W1>>), Spawn(Root, NodeB, <<>>)>>,
       <<Pipe(Root, R1, W1)>>,
       <<Write(NodeA, W1, Nobody, R1, <<5>>), Write(NodeB, W1, Nobody, R1, <<5>>)>>)

\* two spawn entries name the same child, each with one pipe, not the same
GraphTwiceOnePipe ==
  Data(<<Spawn(Root, NodeA, <<R1>>), Spawn(Root, NodeA, <<W1>>)>>,
       <<Pipe(Root, R1, W1)>>,
       <<>>)

\* a node names itself as the child of a spawn entry of its own and hands the
\* write end it was given on to the instance it starts
GraphCycle ==
  Data(<<Spawn(Root, NodeA, <<W1>>), Spawn(NodeA, NodeA, <<W1>>)>>,
       <<Pipe(Root, R1, W1)>>,
       <<Write(NodeA, W1, Nobody, R1, <<5>>)>>)

WellFormedGraphs == {GraphHello, GraphChain, GraphFan}
MalformedGraphs ==
  {GraphNotFound, GraphNotFoundLate, GraphNotFoundThird, GraphTwice, GraphFirstChildFails,
   GraphLastChildFails, GraphGrandchildFails, GraphSelf, GraphSameIndex, GraphFull,
   GraphNoReader, GraphTwiceOnePipe, GraphCycle}
Graphs == WellFormedGraphs \cup MalformedGraphs

(***************************************************************************)
(* The serialized descriptor (the witness main() loads into data_buffer),  *)
(* as far as MolReader_Data_verify looks at it itself: the size of the     *)
(* segment, the total size its first 4 bytes give, the offsets that follow *)
(* and the results of the verification of the three nested vectors.        *)
(***************************************************************************)
RECURSIVE SumSeq(_)
SumSeq(sizes) == IF sizes = <<>> THEN 0 ELSE Head(sizes) + SumSeq(Tail(sizes))

\* a table of n fields: the total size and n offsets, then the fields
SizeOfSpawn(spawn) ==
  MOL_NUM_T_SIZE * 4 + 8 + 8 + (MOL_NUM_T_SIZE + 8 * Len(spawn.fds))
SizeOfPipe(pipe) == MOL_NUM_T_SIZE * 4 + 8 + 8 + 8
SizeOfWrite(write) ==
  MOL_NUM_T_SIZE * 6 + 8 + 8 + 8 + 8 + Len(MolReader_Write_get_data(write))
\* a vector of tables: the total size and one offset per item, then the items
SizeOfDynvec(sizes) ==
  MOL_NUM_T_SIZE + MOL_NUM_T_SIZE * Len(sizes) + SumSeq(sizes)

\* the segment a builder makes of a descriptor
Serialized(g) ==
  LET first == MOL_NUM_T_SIZE * 4
      second == first
                  + SizeOfDynvec([k \in DOMAIN g.spawns |-> SizeOfSpawn(g.spawns[k])])
      third == second
                 + SizeOfDynvec([k \in DOMAIN g.pipes |-> SizeOfPipe(g.pipes[k])])
      total == third
                 + SizeOfDynvec([k \in DOMAIN g.writes |-> SizeOfWrite(g.writes[k])])
  IN [size |-> total, total_size |-> total, offsets |-> <<first, second, third>>,
      spawns |-> "MOL_OK", pipes |-> "MOL_OK", writes |-> "MOL_OK"]

\* segments that are not what a builder makes
Damaged(seg) ==
  {[seg EXCEPT !.size = MOL_NUM_T_SIZE - 1],
   [seg EXCEPT !.size = @ - 1],
   [seg EXCEPT !.total_size = @ + 1],
   [seg EXCEPT !.size = MOL_NUM_T_SIZE, !.total_size = MOL_NUM_T_SIZE],
   [seg EXCEPT !.offsets[1] = @ + 2],
   [seg EXCEPT !.offsets[1] = MOL_NUM_T_SIZE],
   [seg EXCEPT !.offsets[1] = @ - MOL_NUM_T_SIZE],
   [seg EXCEPT !.offsets[1] = @ + MOL_NUM_T_SIZE,
               !.offsets = Append(@, seg.offsets[3])],
   [seg EXCEPT !.offsets[2] = seg.offsets[1] - MOL_NUM_T_SIZE],
   [seg EXCEPT !.offsets[3] = seg.offsets[2] - MOL_NUM_T_SIZE],
   [seg EXCEPT !.offsets[3] = seg.total_size + MOL_NUM_T_SIZE],
   [seg EXCEPT !.spawns = "MOL_ERR_OFFSET"],
   [seg EXCEPT !.pipes = "MOL_ERR_TOTAL_SIZE"],
   [seg EXCEPT !.writes = "MOL_ERR_HEADER"]}

RECURSIVE offsets_loop(_, _, _)
\* spawn_dag.h:573-579: the offsets after the first are in ascending order
offsets_loop(offsets, field_count, i) ==
  IF ~(i < field_count) THEN "MOL_OK"
  ELSE IF offsets[i] > offsets[i + 1] THEN "MOL_ERR_OFFSET"
  ELSE offsets_loop(offsets, field_count, i + 1)

\* a verification that looks at the header of the table only
MolReader_Data_verify_header_only(input, compatible) ==
  IF input.size < MOL_NUM_T_SIZE THEN "MOL_ERR_HEADER"
  ELSE IF input.size # input.total_size THEN "MOL_ERR_TOTAL_SIZE"
  ELSE IF input.size < MOL_NUM_T_SIZE * 2 THEN "MOL_ERR_HEADER"
  ELSE IF input.offsets[1] % 4 > 0 \/ input.offsets[1] < MOL_NUM_T_SIZE * 2
    THEN "MOL_ERR_OFFSET"
  ELSE IF (input.offsets[1] \div 4) - 1 # 3 THEN "MOL_ERR_FIELD_COUNT"
  ELSE "MOL_OK"

\* spawn_dag.h:545-605
MolReader_Data_verify(input, compatible) ==
  IF input.size < MOL_NUM_T_SIZE THEN "MOL_ERR_HEADER"
  ELSE IF input.size # input.total_size THEN "MOL_ERR_TOTAL_SIZE"
  ELSE IF input.size < MOL_NUM_T_SIZE * 2 THEN "MOL_ERR_HEADER"
  ELSE LET offset == input.offsets[1]
           field_count == (offset \div 4) - 1
       IN
    IF offset % 4 > 0 \/ offset < MOL_NUM_T_SIZE * 2 THEN "MOL_ERR_OFFSET"
    ELSE IF field_count < 3 THEN "MOL_ERR_FIELD_COUNT"
    ELSE IF ~compatible /\ field_count > 3 THEN "MOL_ERR_FIELD_COUNT"
    ELSE IF input.size < MOL_NUM_T_SIZE * (field_count + 1) THEN "MOL_ERR_HEADER"
    ELSE IF offsets_loop(input.offsets, field_count, 1) # "MOL_OK"
      THEN "MOL_ERR_OFFSET"
    ELSE IF input.offsets[field_count] > input.total_size THEN "MOL_ERR_OFFSET"
    ELSE IF input.spawns # "MOL_OK" THEN "MOL_ERR_DATA"
    ELSE IF input.pipes # "MOL_OK" THEN "MOL_ERR_DATA"
    ELSE IF input.writes # "MOL_OK" THEN "MOL_ERR_DATA"
    ELSE "MOL_OK"

(***************************************************************************)
(* The verification on the bytes of a buffer.  A segment is a position ptr *)
(* in the buffer and a size.  main() passes a segment of data_length bytes *)
(* of the local array data_buffer: what the array holds after them was     *)
(* never written, and pad is the value a read finds there.                 *)
(***************************************************************************)
\* the byte at position p (from 0) of the array
ByteAt(buf, pad, p) == IF p < Len(buf) THEN buf[p + 1] ELSE pad

\* mol_unpack_number: the 32-bit number the 4 little-endian bytes at ptr
\* hold.  The integers of the checker end at 2^31 - 1: a number of 2^30 or
\* more is kept as one of 2^30 or more, far above every size and offset of
\* a buffer of the runs.
mol_unpack_number(buf, pad, ptr) ==
  LET top == ByteAt(buf, pad, ptr + 3) IN
  ByteAt(buf, pad, ptr) + 256 * ByteAt(buf, pad, ptr + 1)
    + 65536 * ByteAt(buf, pad, ptr + 2)
    + 16777216 * (IF top < 64 THEN top ELSE 64 + (top % 64))

\* mol_verify_fixed_size(s, total_size)
mol_verify_fixed_size(size, total_size) ==
  IF size = total_size THEN "MOL_OK" ELSE "MOL_ERR_TOTAL_SIZE"

\* mol_fixvec_verify(s, item_size): the count, then that many items
mol_fixvec_verify(buf, pad, ptr, size, item_size) ==
  IF size < MOL_NUM_T_SIZE THEN "MOL_ERR_HEADER"
  ELSE LET item_count == mol_unpack_number(buf, pad, ptr) IN
    IF item_count = 0
      THEN (IF size = MOL_NUM_T_SIZE THEN "MOL_OK" ELSE "MOL_ERR_TOTAL_SIZE")
    ELSE IF item_count <= size /\ size = MOL_NUM_T_SIZE + item_size * item_count
      THEN "MOL_OK"
    ELSE "MOL_ERR_TOTAL_SIZE"

\* spawn_dag.h:207-244 (and 316-353, 437-474): what the verification of a
\* table of `fields` fields does before it looks into the fields; on MOL_OK
\* offsets holds offsets[0..field_count] of the code
mol_table_header(buf, pad, ptr, size, compatible, fields) ==
  LET fail(e) == [errno |-> e, offsets |-> <<>>] IN
  IF size < MOL_NUM_T_SIZE THEN fail("MOL_ERR_HEADER")
  ELSE LET total_size == mol_unpack_number(buf, pad, ptr) IN
    IF size # total_size THEN fail("MOL_ERR_TOTAL_SIZE")
    ELSE IF size < MOL_NUM_T_SIZE * 2 THEN fail("MOL_ERR_HEADER")
    ELSE LET offset == mol_unpack_number(buf, pad, ptr + MOL_NUM_T_SIZE)
             field_count == (offset \div 4) - 1
         IN
      IF offset % 4 > 0 \/ offset < MOL_NUM_T_SIZE * 2 THEN fail("MOL_ERR_OFFSET")
      ELSE IF field_count < fields THEN fail("MOL_ERR_FIELD_COUNT")
      ELSE IF ~compatible /\ field_count > fields THEN fail("MOL_ERR_FIELD_COUNT")
      ELSE IF size < MOL_NUM_T_SIZE * (field_count + 1) THEN fail("MOL_ERR_HEADER")
      ELSE LET offsets ==
                 [i \in 1..field_count |->
                    mol_unpack_number(buf, pad, ptr + MOL_NUM_T_SIZE * i)]
           IN
        IF \E i \in 1..(field_count - 1) : offsets[i] > offsets[i + 1]
          THEN fail("MOL_ERR_OFFSET")
        ELSE IF offsets[field_count] > total_size THEN fail("MOL_ERR_OFFSET")
        ELSE [errno |-> "MOL_OK", offsets |-> Append(offsets, total_size)]

\* spawn_dag.h:206-266
MolReader_Pipe_verify(buf, pad, ptr, size, compatible) ==
  LET h == mol_table_header(buf, pad, ptr, size, compatible, 3)
      offsets == h.offsets
  IN IF h.errno # "MOL_OK" THEN h.errno
     ELSE IF mol_verify_fixed_size(offsets[2] - offsets[1], 8) # "MOL_OK"
       THEN "MOL_ERR_DATA"
     ELSE IF mol_verify_fixed_size(offsets[3] - offsets[2], 8) # "MOL_OK"
       THEN "MOL_ERR_DATA"
     ELSE IF mol_verify_fixed_size(offsets[4] - offsets[3], 8) # "MOL_OK"
       THEN "MOL_ERR_DATA"
     ELSE "MOL_OK"

\* spawn_dag.h:315-387
MolReader_Write_verify(buf, pad, ptr, size, compatible) ==
  LET h == mol_table_header(buf, pad, ptr, size, compatible, 5)
      offsets == h.offsets
  IN IF h.errno # "MOL_OK" THEN h.errno
     ELSE IF mol_verify_fixed_size(offsets[2] - offsets[1], 8) # "MOL_OK"
       THEN "MOL_ERR_DATA"
     ELSE IF mol_verify_fixed_size(offsets[3] - offsets[2], 8) # "MOL_OK"
       THEN "MOL_ERR_DATA"
     ELSE IF mol_verify_fixed_size(offsets[4] - offsets[3], 8) # "MOL_OK"
       THEN "MOL_ERR_DATA"
     ELSE IF mol_verify_fixed_size(offsets[5] - offsets[4], 8) # "MOL_OK"
       THEN "MOL_ERR_DATA"
     ELSE IF mol_fixvec_verify(buf, pad, ptr + offsets[5], offsets[6] - offsets[5], 1)
               # "MOL_OK"
       THEN "MOL_ERR_DATA"
     ELSE "MOL_OK"

\* spawn_dag.h:436-496
MolReader_Spawn_verify(buf, pad, ptr, size, compatible) ==
  LET h == mol_table_header(buf, pad, ptr, size, compatible, 3)
      offsets == h.offsets
  IN IF h.errno # "MOL_OK" THEN h.errno
     ELSE IF mol_verify_fixed_size(offsets[2] - offsets[1], 8) # "MOL_OK"
       THEN "MOL_ERR_DATA"
     ELSE IF mol_verify_fixed_size(offsets[3] - offsets[2], 8) # "MOL_OK"
       THEN "MOL_ERR_DATA"
     ELSE IF mol_fixvec_verify(buf, pad, ptr + offsets[3], offsets[4] - offsets[3], 8)
               # "MOL_OK"
       THEN "MOL_ERR_DATA"
     ELSE "MOL_OK"

\* the verification of one item of a vector of tables of the given kind
mol_item_verify(kind, buf, pad, ptr, size, compatible) ==
  IF kind = "Spawn" THEN MolReader_Spawn_verify(buf, pad, ptr, size, compatible)
  ELSE IF kind = "Pipe" THEN MolReader_Pipe_verify(buf, pad, ptr, size, compatible)
  ELSE MolReader_Write_verify(buf, pad, ptr, size, compatible)

RECURSIVE mol_dynvec_items_loop(_, _, _, _, _, _, _, _, _)
\* spawn_dag.h:521-543 (and 291-313, 412-434): the loop over all items but
\* the last, and what follows it; offset is the start of item i - 1
mol_dynvec_items_loop(kind, buf, pad, ptr, total_size, compatible, item_count, offset, i) ==
  IF ~(i < item_count)
    THEN IF offset > total_size THEN "MOL_ERR_OFFSET"
         ELSE mol_item_verify(kind, buf, pad, ptr + offset, total_size - offset, compatible)
  ELSE LET end == mol_unpack_number(buf, pad, ptr + MOL_NUM_T_SIZE * (i + 1)) IN
    IF offset > end THEN "MOL_ERR_OFFSET"
    ELSE IF mol_item_verify(kind, buf, pad, ptr + offset, end - offset, compatible)
              # "MOL_OK"
      THEN "MOL_ERR_DATA"
    ELSE mol_dynvec_items_loop(kind, buf, pad, ptr, total_size, compatible, item_count,
                               end, i + 1)

\* a verification of a vector that looks at the header of the vector only
mol_dynvec_verify_shallow(kind, buf, pad, ptr, size, compatible) ==
  IF size < MOL_NUM_T_SIZE THEN "MOL_ERR_HEADER"
  ELSE IF size # mol_unpack_number(buf, pad, ptr) THEN "MOL_ERR_TOTAL_SIZE"
  ELSE "MOL_OK"

\* spawn_dag.h:497-544 (Spawns), 267-314 (Pipes), 388-435 (Writes): the
\* verification of a vector of tables
mol_dynvec_verify(kind, buf, pad, ptr, size, compatible) ==
  IF size < MOL_NUM_T_SIZE THEN "MOL_ERR_HEADER"
  ELSE LET total_size == mol_unpack_number(buf, pad, ptr) IN
    IF size # total_size THEN "MOL_ERR_TOTAL_SIZE"
    ELSE IF size = MOL_NUM_T_SIZE THEN "MOL_OK"
    ELSE IF size < MOL_NUM_T_SIZE * 2 THEN "MOL_ERR_HEADER"
    ELSE LET offset == mol_unpack_number(buf, pad, ptr + MOL_NUM_T_SIZE)
             item_count == (offset \div 4) - 1
         IN
      IF offset % 4 > 0 \/ offset < MOL_NUM_T_SIZE * 2 THEN "MOL_ERR_OFFSET"
      ELSE IF size < MOL_NUM_T_SIZE * (item_count + 1) THEN "MOL_ERR_HEADER"
      ELSE mol_dynvec_items_loop(kind, buf, pad, ptr, total_size, compatible,
                                 item_count, offset, 1)

MolReader_Spawns_verify(buf, pad, ptr, size, compatible) ==
  mol_dynvec_verify("Spawn", buf, pad, ptr, size, compatible)
MolReader_Pipes_verify(buf, pad, ptr, size, compatible) ==
  mol_dynvec_verify("Pipe", buf, pad, ptr, size, compatible)
MolReader_Writes_verify(buf, pad, ptr, size, compatible) ==
  mol_dynvec_verify("Write", buf, pad, ptr, size, compatible)

\* the segment of data_length = Len(buf) bytes as MolReader_Data_verify
\* reads it: the total size and the three offsets of its header, as far as
\* the segment holds them, and what the verification of each of its three
\* fields returns once the header has been found in order
\* (spawn_dag.h:584-603)
DataSegment(buf, pad, compatible) ==
  LET size == Len(buf)
      h == mol_table_header(buf, pad, 0, size, compatible, 3)
      field(verify_kind, i) ==
        IF h.errno # "MOL_OK" THEN "none"
        ELSE mol_dynvec_verify(verify_kind, buf, pad, h.offsets[i],
                               h.offsets[i + 1] - h.offsets[i], compatible)
  IN [size |-> size,
      total_size |-> IF size < MOL_NUM_T_SIZE THEN 0 ELSE mol_unpack_number(buf, pad, 0),
      offsets |-> [i \in 1..(IF size < MOL_NUM_T_SIZE * 2 THEN 0
                             ELSE IF size < MOL_NUM_T_SIZE * 4 THEN 1
                             ELSE 3) |->
                     mol_unpack_number(buf, pad, MOL_NUM_T_SIZE * i)],
      spawns |-> field("Spawn", 1),
      pipes |-> field("Pipe", 2),
      writes |-> field("Write", 3)]

(***************************************************************************)
(* Identity resolution and the building of a child's pipe list, as main()  *)
(* computes them between two primitive calls.                              *)
(***************************************************************************)
\* a lookup that takes the last spawn entry whose child is vm_index
find_spawn_from_last(spawns, vm_index, i) ==
  LET ks == {k \in (i + 1)..Len(spawns) : spawns[k].child = vm_index}
  IN IF ks = {} THEN [spawn_found |-> 0, spawn_seg |-> Spawn(Zero64, Zero64, <<>>)]
     ELSE [spawn_found |-> 1, spawn_seg |-> spawns[CHOOSE k \in ks : \A l \in ks : l <= k]]

RECURSIVE find_spawn_loop(_, _, _)
\* spawn_dag.c:92-104: the first spawn entry whose child is vm_index
find_spawn_loop(spawns, vm_index, i) ==
  IF ~(i < Len(spawns)) THEN [spawn_found |-> 0, spawn_seg |-> Spawn(Zero64, Zero64, <<>>)]
  ELSE IF spawns[i + 1].child = vm_index
    THEN [spawn_found |-> 1, spawn_seg |-> spawns[i + 1]]
    ELSE find_spawn_loop(spawns, vm_index, i + 1)

RECURSIVE obtain_pipes_loop(_, _, _, _)
\* spawn_dag.c:118-133: bind the i-th passed index to the i-th decoded id
\* (the result of pipes_add is bound as a value before it is tested)
obtain_pipes_loop(current_pipes, passed_pipes_seg, arg, i) ==
  IF ~(i < MolReader_PipeIndices_length(passed_pipes_seg))
    THEN [ret |-> CKB_SUCCESS, pipes |-> current_pipes]
    ELSE CHOOSE r \in
           {IF added.ret # 0 THEN added
            ELSE obtain_pipes_loop(added.pipes, passed_pipes_seg, arg, i + 1) :
              added \in {pipes_add(current_pipes, passed_pipes_seg[i + 1],
                                   SubSeq(arg, i * 8 + 1, i * 8 + 8))}} : TRUE

\* spawn_dag.c:80-133: vm_index and the inherited registry from the two
\* arguments of a spawned VM; decoded counts the calls of
\* ee_decode_char_string_in_place, looked_up tells whether the loop over the
\* spawn entries was entered
resolve_spawned(graph_data, args) ==
  LET fail(code, vm_index, decoded, looked_up) ==
        [ret |-> code, vm_index |-> vm_index, pipes |-> pipes_init,
         decoded |-> decoded, looked_up |-> looked_up, adds |-> <<>>]
      \* l.110-133, with the second string decoded to the value d1
      obtain(vm_index, passed_pipes_seg, d1) ==
        IF d1.ret # 0 THEN fail(d1.ret, vm_index, 2, TRUE)
        ELSE IF d1.length # MolReader_PipeIndices_length(passed_pipes_seg) * 8
          THEN fail(ERROR_ARGV, vm_index, 2, TRUE)
        ELSE CHOOSE r \in
               {[ret |-> got.ret, vm_index |-> vm_index,
                 pipes |-> got.pipes, decoded |-> 2, looked_up |-> TRUE,
                 \* the calls of pipes_add that returned 0
                 adds |-> [i \in 1..got.pipes.used |->
                            [index |-> passed_pipes_seg[i],
                             id |-> SubSeq(d1.buf, 8 * i - 7, 8 * i)]]] :
                  got \in {obtain_pipes_loop(pipes_init, passed_pipes_seg,
                                             d1.buf, 0)}} : TRUE
      \* l.85-133, with the first string decoded to the value d0
      lookup(d0) ==
        IF d0.ret # 0 THEN fail(d0.ret, Zero64, 1, FALSE)
        ELSE IF d0.length # 8 THEN fail(ERROR_ARGV, Zero64, 1, FALSE)
        ELSE LET vm_index == SubSeq(d0.buf, 1, 8)
                 found == find_spawn_loop(graph_data.spawns, vm_index, 0)
             IN IF found.spawn_found = 0 THEN fail(ERROR_ARGV, vm_index, 1, TRUE)
                ELSE CHOOSE r \in
                       {obtain(vm_index, MolReader_Spawn_get_pipes(found.spawn_seg), d1) :
                          d1 \in {ee_decode_char_string_in_place(args[2])}} : TRUE
  IN CHOOSE r \in {lookup(d0) : d0 \in {ee_decode_char_string_in_place(args[1])}} : TRUE

\* a root that takes the first spawn entry for its own and binds its pipes
resolve_root_from_first_entry ==
  [ret |-> CKB_SUCCESS, vm_index |-> Zero64,
   pipes |-> pipes_add(pipes_init, R1, Zero64).pipes,
   decoded |-> 0, looked_up |-> TRUE, adds |-> <<>>]

\* vm_index 0 and an empty registry, nothing decoded and nothing looked up
resolve_root ==
  [ret |-> CKB_SUCCESS, vm_index |-> Zero64, pipes |-> pipes_init,
   decoded |-> 0, looked_up |-> FALSE, adds |-> <<>>]

\* an identity resolution that takes every count of arguments but 2 for the
\* root's
resolve_identity_root_by_default(graph_data, args) ==
  IF Len(args) # 2 THEN resolve_root ELSE resolve_spawned(graph_data, args)

\* spawn_dag.c:73-134: vm_index and the inherited registry from argv
resolve_identity(graph_data, args) ==
  LET argc == Len(args)
  IN IF argc = 0 THEN resolve_root
     ELSE IF argc # 2
       THEN [ret |-> ERROR_ARGV, vm_index |-> Zero64, pipes |-> pipes_init,
             decoded |-> 0, looked_up |-> FALSE, adds |-> <<>>]
     ELSE resolve_spawned(graph_data, args)

RECURSIVE pass_pipes_loop_skip(_, _, _, _)
\* a loop that leaves out the indices the registry does not hold
pass_pipes_loop_skip(current_pipes, passed_pipes, pipe_indices, i) ==
  IF ~(i < MolReader_PipeIndices_length(pipe_indices))
    THEN [ret |-> CKB_SUCCESS, pipes |-> passed_pipes]
    ELSE LET index == pipe_indices[i + 1]
             found == pipes_find(current_pipes, index)
         IN IF found.ret # 0
              THEN pass_pipes_loop_skip(current_pipes, passed_pipes, pipe_indices, i + 1)
            ELSE LET added == pipes_add(passed_pipes, index, found.id)
                 IN IF added.ret # 0 THEN added
                    ELSE pass_pipes_loop_skip(current_pipes, added.pipes,
                                              pipe_indices, i + 1)

RECURSIVE pass_pipes_loop(_, _, _, _)
\* spawn_dag.c:193-216: resolve every visible pipe index of a spawn entry
pass_pipes_loop(current_pipes, passed_pipes, pipe_indices, i) ==
  IF ~(i < MolReader_PipeIndices_length(pipe_indices))
    THEN [ret |-> CKB_SUCCESS, pipes |-> passed_pipes]
    ELSE LET index == pipe_indices[i + 1]
             found == pipes_find(current_pipes, index)
         IN IF found.ret # 0 THEN [ret |-> found.ret, pipes |-> passed_pipes]
            ELSE LET added == pipes_add(passed_pipes, index, found.id)
                 IN IF added.ret # 0 THEN added
                    ELSE pass_pipes_loop(current_pipes, added.pipes, pipe_indices, i + 1)

\* an argument string made of the bytes as they are, not escaped
encode_arg_raw(src) == [ret |-> 0, arg |-> CString(src \o <<0>>)]

\* spawn_dag.c:218-236: one argv string, the escape encoding of src (the
\* buffers are bound as values before the loops run over them)
encode_arg(src) ==
  CHOOSE r \in
    {[ret |-> enc.ret, arg |-> CString(enc.dst \o <<0>>)] :
       enc \in {ee_encode(s, ee_maximum_encoding_length(Len(s))) : s \in {src}}} : TRUE

RECURSIVE UntilZero(_)
\* the handle list the spawn primitive reads from inherited_fds: up to the
\* first zero entry
UntilZero(ids) ==
  IF ids = <<>> \/ Head(ids) = Zero64 THEN <<>>
  ELSE <<Head(ids)>> \o UntilZero(Tail(ids))

(***************************************************************************)
(* The primitives, at their interface.  Handles come from a pool the run   *)
(* is started with; pipe k has the read handle pool[2k-1] and the write    *)
(* handle pool[2k].  A write hands bytes over only while a reader waits in *)
(* a read on the other end, and returns once some of them are taken.       *)
(***************************************************************************)
CKB_INDEX_OUT_OF_BOUND == 1
CKB_WAIT_FAILURE == 5
CKB_INVALID_FD == 6
CKB_OTHER_END_CLOSED == 7
CKB_MAX_VMS_SPAWNED == 8
CKB_MAX_FDS_CREATED == 9

\* handles as the VM numbers them, from 2 on
PoolCkb == <<U64(2, 0), U64(3, 0), U64(4, 0), U64(5, 0)>>
\* handles whose bytes hold 0x00, 0xFE and 0xFF
PoolEscape ==
  <<U64(254, 0), U64(0, 254), <<255, 255, 255, 255, 255, 255, 255, 255>>,
    <<254, 254, 254, 254, 254, 254, 254, 254>>>>
\* handles numbered from 0 on
PoolZero == <<Zero64, U64(1, 0), U64(2, 0), U64(3, 0)>>
FdPools == {PoolCkb, PoolEscape, PoolZero}

Procs == 0..(MaxProcs - 1)
NoPid == -1

VARIABLES
  data_buffer,\* the witness every process loads, as the verification sees it
  graph,      \* the descriptor the witness holds
  fdpool,     \* the handles the pipe primitive will yield, in order
  quota,      \* failures the primitives may report in this run
  faults,     \* failures the primitives have reported so far
  proc,       \* per process id: the locals of main() and its position
  nproc,      \* process instances created so far
  nfd,        \* handles yielded so far
  inflight,   \* per pipe: bytes written and not yet returned by a read
  codec,      \* the buffers of a run of the escape codec on its own
  mol,        \* the buffer of a run of the verification on its own
  cases       \* the processes and pipes of a run of spawn_cases.c

mainvars == <<data_buffer, graph, fdpool, quota, faults, proc, nproc, nfd, inflight>>
vars == <<data_buffer, graph, fdpool, quota, faults, proc, nproc, nfd, inflight, codec, mol, cases>>

\* no codec run
CodecOff == [op |-> "off"]
\* no run of the verification on its own
MolOff == [op |-> "off"]
\* no run of spawn_cases.c
CasesOff == [op |-> "off"]

NoProc ==
  [pc |-> "none", argv |-> <<>>, vm_index |-> Zero64,
   current_pipes |-> pipes_init, spawned_vms |-> <<>>, spawned_count |-> 0,
   i |-> 0, pipe_id |-> Zero64, written |-> 0, ret |-> 0, length |-> 0,
   exit_code |-> 0,
   \* the primitive called last (ret holds its status), the result of the
   \* verification, the arguments decoded, the spawn entries looked up
   prim |-> "none", errno |-> "none", decoded |-> 0, looked_up |-> FALSE,
   \* what the run records about the process, for the properties
   parent |-> NoPid, inherited_fds |-> <<>>, inherited |-> pipes_init,
   tx |-> <<>>, rx |-> <<>>, waits |-> <<>>, spawn_calls |-> <<>>,
   \* the calls of pipes_add on current_pipes that returned 0
   adds |-> <<>>]

\* a process the spawn primitive (or the harness, for the root) has started
NewProc(args, parent, inherited_fds) ==
  [NoProc EXCEPT !.pc = "start", !.argv = args, !.parent = parent,
                 !.inherited_fds = inherited_fds,
                 !.tx = [k \in 1..Len(graph.writes) |-> <<>>],
                 !.rx = [k \in 1..Len(graph.writes) |-> <<>>]]

\* the argument string that carries bytes
ArgOf(bytes) == encode_arg(bytes).arg

\* the argument lists a process is started with by something other than
\* main(): none for the root, and lists main() would not have made
RootInvocation == <<>>
OtherInvocations ==
  {<<ArgOf(NodeA)>>,
   <<ArgOf(NodeA), ArgOf(<<>>), ArgOf(<<>>)>>,
   <<ArgOf(SubSeq(NodeA, 1, 7)), ArgOf(<<>>)>>,
   <<ArgOf(NodeA \o <<1>>), ArgOf(<<>>)>>,
   <<<<1, 254>>, ArgOf(<<>>)>>,
   <<ArgOf(Nobody), ArgOf(<<>>)>>,
   <<ArgOf(Root), ArgOf(<<>>)>>,
   <<ArgOf(NodeA), ArgOf(<<1, 2, 3>>)>>,
   <<ArgOf(NodeA), <<2, 254>>>>,
   <<ArgOf(NodeA), ArgOf(<<>>)>>,
   <<ArgOf(NodeA), ArgOf(PoolCkb[1])>>,
   <<ArgOf(NodeA), ArgOf(Flatten([k \in 1..(MAX_PIPE_COUNT + 2) |-> PoolCkb[2]]))>>}
Invocations == {RootInvocation} \cup OtherInvocations

\* a run: the root started on a descriptor a builder made; or a process
\* started with other arguments, or on a damaged witness
Init ==
  /\ graph \in Graphs
  /\ quota \in {0, MaxFaults}
  /\ \/ /\ data_buffer = Serialized(graph)
        /\ fdpool \in FdPools
        /\ proc = [p \in Procs |->
                     IF p = 0 THEN NewProc(RootInvocation, NoPid, <<>>) ELSE NoProc]
     \/ /\ data_buffer = Serialized(graph)
        /\ fdpool = PoolCkb
        /\ \E args \in OtherInvocations :
             proc = [p \in Procs |-> IF p = 0 THEN NewProc(args, NoPid, <<>>) ELSE NoProc]
     \/ /\ data_buffer \in Damaged(Serialized(graph))
        /\ fdpool = PoolCkb
        /\ \E args \in {RootInvocation, <<ArgOf(NodeA)>>, <<ArgOf(NodeA), ArgOf(<<>>)>>} :
             proc = [p \in Procs |-> IF p = 0 THEN NewProc(args, NoPid, <<>>) ELSE NoProc]
  /\ faults = 0
  /\ nproc = 1
  /\ nfd = 0
  /\ inflight = [k \in 1..(Len(fdpool) \div 2) |-> <<>>]
  /\ codec = CodecOff
  /\ mol = MolOff
  /\ cases = CasesOff

\* a primitive may report a failure of its own while the run allows one
Faulty == IF faults < quota THEN {FALSE, TRUE} ELSE {FALSE}
Spend(fault) == faults' = IF fault THEN faults + 1 ELSE faults

\* return ret from main(): the exit status is the low 8 bits, signed
Exited(pr, ret) == [pr EXCEPT !.pc = "done", !.exit_code = ToInt8(ret)]

\* the pipe whose read (write) end is handle h, 0 if there is none
ReadEndOf(h) ==
  LET ks == {k \in 1..(nfd \div 2) : fdpool[2 * k - 1] = h}
  IN IF ks = {} THEN 0 ELSE CHOOSE k \in ks : TRUE
WriteEndOf(h) ==
  LET ks == {k \in 1..(nfd \div 2) : fdpool[2 * k] = h}
  IN IF ks = {} THEN 0 ELSE CHOOSE k \in ks : TRUE

(***************************************************************************)
(* main(), one action per stretch between two primitive calls.             *)
(***************************************************************************)
\* spawn_dag.c:54-134: load the witness, verify it, resolve the identity
Main_start(p) ==
  /\ proc[p].pc = "start"
  /\ \E fault \in Faulty, id \in {resolve_identity(graph, proc[p].argv)} :
       LET pr == proc[p]
           ret == IF fault THEN CKB_INDEX_OUT_OF_BOUND ELSE CKB_SUCCESS
           loaded == [pr EXCEPT !.prim = "load_witness", !.ret = ret]
           errno == MolReader_Data_verify(data_buffer, FALSE)
           verified == [loaded EXCEPT !.errno = errno]
           resolved == [verified EXCEPT !.vm_index = id.vm_index,
                                        !.decoded = id.decoded,
                                        !.looked_up = id.looked_up,
                                        !.adds = id.adds]
       IN /\ Spend(fault)
          /\ proc' = [proc EXCEPT ![p] =
               IF ret # CKB_SUCCESS THEN Exited(loaded, ret)
               ELSE IF errno # "MOL_OK" THEN Exited(verified, ERROR_ENCODING)
               ELSE IF id.ret # 0
                 THEN Exited([resolved EXCEPT !.current_pipes = id.pipes], id.ret)
               ELSE [resolved EXCEPT !.pc = "pipes", !.current_pipes = id.pipes,
                                     !.inherited = id.pipes, !.i = 0]]
  /\ UNCHANGED <<codec, mol, cases, data_buffer, graph, fdpool, quota, nproc, nfd, inflight>>

\* what ckb_pipe may return
ckb_pipe_outcomes ==
  IF nfd + 2 > Len(fdpool)
    THEN {[ret |-> CKB_MAX_FDS_CREATED, fault |-> FALSE, fildes |-> <<Zero64, Zero64>>]}
    ELSE {[ret |-> IF f THEN CKB_MAX_FDS_CREATED ELSE CKB_SUCCESS, fault |-> f,
           fildes |-> IF f THEN <<Zero64, Zero64>>
                      ELSE <<fdpool[nfd + 1], fdpool[nfd + 2]>>] : f \in Faulty}

\* a main() that goes from its own pipes to the transfers, without the loop
\* over the spawn entries
Main_pipes_then_transfers(p) ==
  /\ proc[p].pc = "pipes"
  /\ LET pr == proc[p] IN
     IF ~(pr.i < Len(graph.pipes))
       THEN /\ proc' = [proc EXCEPT ![p] = [pr EXCEPT !.pc = "transfers", !.i = 0]]
            /\ UNCHANGED <<faults, nfd>>
     ELSE IF graph.pipes[pr.i + 1].vm # pr.vm_index
       THEN /\ proc' = [proc EXCEPT ![p] = [pr EXCEPT !.i = @ + 1]]
            /\ UNCHANGED <<faults, nfd>>
     ELSE \E out \in ckb_pipe_outcomes :
       LET pair == graph.pipes[pr.i + 1]
           add1 == pipes_add(pr.current_pipes, pair.read_fd, out.fildes[1])
           add2 == pipes_add(add1.pipes, pair.write_fd, out.fildes[2])
           called == [pr EXCEPT !.prim = "pipe", !.ret = out.ret]
           first == [index |-> pair.read_fd, id |-> out.fildes[1]]
           second == [index |-> pair.write_fd, id |-> out.fildes[2]]
       IN /\ Spend(out.fault)
          /\ nfd' = IF out.ret = CKB_SUCCESS THEN nfd + 2 ELSE nfd
          /\ proc' = [proc EXCEPT ![p] =
               IF out.ret # 0 THEN Exited(called, out.ret)
               ELSE IF add1.ret # 0 THEN Exited(called, add1.ret)
               ELSE IF add2.ret # 0
                 THEN Exited([called EXCEPT !.current_pipes = add1.pipes,
                                            !.adds = Append(@, first)], add2.ret)
               ELSE [called EXCEPT !.current_pipes = add2.pipes, !.i = @ + 1,
                                   !.adds = @ \o <<first, second>>]]
  /\ UNCHANGED <<codec, mol, cases, data_buffer, graph, fdpool, quota, nproc, inflight>>

\* a loop over the pipes entries that registers the write handle under the
\* read index and the read handle under the write index
Main_pipes_swapped(p) ==
  /\ proc[p].pc = "pipes"
  /\ LET pr == proc[p] IN
     IF ~(pr.i < Len(graph.pipes))
       THEN /\ proc' = [proc EXCEPT ![p] = [pr EXCEPT !.pc = "spawns", !.i = 0]]
            /\ UNCHANGED <<faults, nfd>>
     ELSE IF graph.pipes[pr.i + 1].vm # pr.vm_index
       THEN /\ proc' = [proc EXCEPT ![p] = [pr EXCEPT !.i = @ + 1]]
            /\ UNCHANGED <<faults, nfd>>
     ELSE \E out \in ckb_pipe_outcomes :
       LET pair == graph.pipes[pr.i + 1]
           add1 == pipes_add(pr.current_pipes, pair.read_fd, out.fildes[2])
           add2 == pipes_add(add1.pipes, pair.write_fd, out.fildes[1])
           called == [pr EXCEPT !.prim = "pipe", !.ret = out.ret]
           first == [index |-> pair.read_fd, id |-> out.fildes[2]]
           second == [index |-> pair.write_fd, id |-> out.fildes[1]]
       IN /\ Spend(out.fault)
          /\ nfd' = IF out.ret = CKB_SUCCESS THEN nfd + 2 ELSE nfd
          /\ proc' = [proc EXCEPT ![p] =
               IF out.ret # 0 THEN Exited(called, out.ret)
               ELSE IF add1.ret # 0 THEN Exited(called, add1.ret)
               ELSE IF add2.ret # 0
                 THEN Exited([called EXCEPT !.current_pipes = add1.pipes,
                                            !.adds = Append(@, first)], add2.ret)
               ELSE [called EXCEPT !.current_pipes = add2.pipes, !.i = @ + 1,
                                   !.adds = @ \o <<first, second>>]]
  /\ UNCHANGED <<codec, mol, cases, data_buffer, graph, fdpool, quota, nproc, inflight>>

\* a loop over the pipes entries that goes on to the next entry when
\* ckb_pipe fails
Main_pipes_goes_on(p) ==
  /\ proc[p].pc = "pipes"
  /\ LET pr == proc[p] IN
     IF ~(pr.i < Len(graph.pipes))
       THEN /\ proc' = [proc EXCEPT ![p] = [pr EXCEPT !.pc = "spawns", !.i = 0]]
            /\ UNCHANGED <<faults, nfd>>
     ELSE IF graph.pipes[pr.i + 1].vm # pr.vm_index
       THEN /\ proc' = [proc EXCEPT ![p] = [pr EXCEPT !.i = @ + 1]]
            /\ UNCHANGED <<faults, nfd>>
     ELSE \E out \in ckb_pipe_outcomes :
       LET pair == graph.pipes[pr.i + 1]
           add1 == pipes_add(pr.current_pipes, pair.read_fd, out.fildes[1])
           add2 == pipes_add(add1.pipes, pair.write_fd, out.fildes[2])
           called == [pr EXCEPT !.prim = "pipe", !.ret = out.ret]
           first == [index |-> pair.read_fd, id |-> out.fildes[1]]
           second == [index |-> pair.write_fd, id |-> out.fildes[2]]
       IN /\ Spend(out.fault)
          /\ nfd' = IF out.ret = CKB_SUCCESS THEN nfd + 2 ELSE nfd
          /\ proc' = [proc EXCEPT ![p] =
               IF out.ret # 0 THEN [called EXCEPT !.i = @ + 1]
               ELSE IF add1.ret # 0 THEN Exited(called, add1.ret)
               ELSE IF add2.ret # 0
                 THEN Exited([called EXCEPT !.current_pipes = add1.pipes,
                                            !.adds = Append(@, first)], add2.ret)
               ELSE [called EXCEPT !.current_pipes = add2.pipes, !.i = @ + 1,
                                   !.adds = @ \o <<first, second>>]]
  /\ UNCHANGED <<codec, mol, cases, data_buffer, graph, fdpool, quota, nproc, inflight>>

\* spawn_dag.c:136-167: one iteration of the loop over the pipes entries
Main_pipes(p) ==
  /\ proc[p].pc = "pipes"
  /\ LET pr == proc[p] IN
     IF ~(pr.i < Len(graph.pipes))
       THEN /\ proc' = [proc EXCEPT ![p] = [pr EXCEPT !.pc = "spawns", !.i = 0]]
            /\ UNCHANGED <<faults, nfd>>
     ELSE IF graph.pipes[pr.i + 1].vm # pr.vm_index
       THEN /\ proc' = [proc EXCEPT ![p] = [pr EXCEPT !.i = @ + 1]]
            /\ UNCHANGED <<faults, nfd>>
     ELSE \E out \in ckb_pipe_outcomes :
       LET pair == graph.pipes[pr.i + 1]
           add1 == pipes_add(pr.current_pipes, pair.read_fd, out.fildes[1])
           add2 == pipes_add(add1.pipes, pair.write_fd, out.fildes[2])
           called == [pr EXCEPT !.prim = "pipe", !.ret = out.ret]
           first == [index |-> pair.read_fd, id |-> out.fildes[1]]
           second == [index |-> pair.write_fd, id |-> out.fildes[2]]
       IN /\ Spend(out.fault)
          /\ nfd' = IF out.ret = CKB_SUCCESS THEN nfd + 2 ELSE nfd
          /\ proc' = [proc EXCEPT ![p] =
               IF out.ret # 0 THEN Exited(called, out.ret)
               ELSE IF add1.ret # 0 THEN Exited(called, add1.ret)
               ELSE IF add2.ret # 0
                 THEN Exited([called EXCEPT !.current_pipes = add1.pipes,
                                            !.adds = Append(@, first)], add2.ret)
               ELSE [called EXCEPT !.current_pipes = add2.pipes, !.i = @ + 1,
                                   !.adds = @ \o <<first, second>>]]
  /\ UNCHANGED <<codec, mol, cases, data_buffer, graph, fdpool, quota, nproc, inflight>>

\* what ckb_spawn may return
ckb_spawn_outcomes ==
  IF nproc >= MaxProcs
    THEN {[ret |-> CKB_MAX_VMS_SPAWNED, fault |-> FALSE]}
    ELSE {[ret |-> IF f THEN CKB_MAX_VMS_SPAWNED ELSE CKB_SUCCESS, fault |-> f] :
            f \in Faulty}

\* a preparation whose ceiling check lets one more spawn through
spawn_prepare_one_more(current_pipes, spawned_count, spawn_seg) ==
  LET none == [ret |-> CKB_SUCCESS, argv |-> <<>>, passed_pipes |-> pipes_init]
      passed == pass_pipes_loop(current_pipes, pipes_init,
                                MolReader_Spawn_get_pipes(spawn_seg), 0)
      arg0 == encode_arg(spawn_seg.child)
      arg1 == encode_arg(Flatten(SubSeq(passed.pipes.ids, 1, passed.pipes.used)))
  IN IF spawned_count > MAX_SPAWNED_VMS
       THEN [none EXCEPT !.ret = ERROR_TOO_MANY_SPAWNS]
     ELSE IF passed.ret # 0 THEN [none EXCEPT !.ret = passed.ret]
     ELSE IF arg0.ret # 0 THEN [none EXCEPT !.ret = arg0.ret]
     ELSE IF arg1.ret # 0 THEN [none EXCEPT !.ret = arg1.ret]
     ELSE [ret |-> CKB_SUCCESS, argv |-> <<arg0.arg, arg1.arg>>,
           passed_pipes |-> passed.pipes]

\* spawn_dag.c:183-243: what main() computes for one spawn entry of its own
\* before it calls ckb_spawn: the ceiling check, the child's pipe list and
\* the two argument strings
spawn_prepare(current_pipes, spawned_count, spawn_seg) ==
  LET none == [ret |-> CKB_SUCCESS, argv |-> <<>>, passed_pipes |-> pipes_init]
      child_index == spawn_seg.child
      passed == pass_pipes_loop(current_pipes, pipes_init,
                                MolReader_Spawn_get_pipes(spawn_seg), 0)
      passed_pipes == passed.pipes
      arg0 == encode_arg(child_index)
      arg1 == encode_arg(Flatten(SubSeq(passed_pipes.ids, 1, passed_pipes.used)))
  IN IF spawned_count >= MAX_SPAWNED_VMS
       THEN [none EXCEPT !.ret = ERROR_TOO_MANY_SPAWNS]
     ELSE IF passed.ret # 0 THEN [none EXCEPT !.ret = passed.ret]
     ELSE IF arg0.ret # 0 THEN [none EXCEPT !.ret = arg0.ret]
     ELSE IF arg1.ret # 0 THEN [none EXCEPT !.ret = arg1.ret]
     ELSE [ret |-> CKB_SUCCESS, argv |-> <<arg0.arg, arg1.arg>>,
           passed_pipes |-> passed_pipes]

\* a loop over the spawn entries that stays at an entry after it has spawned
\* the child of it
Main_spawns_again(p) ==
  /\ proc[p].pc = "spawns"
  /\ LET pr == proc[p] IN
     IF ~(pr.i < Len(graph.spawns))
       THEN /\ proc' = [proc EXCEPT ![p] = [pr EXCEPT !.pc = "transfers", !.i = 0]]
            /\ UNCHANGED <<faults, nproc>>
     ELSE IF graph.spawns[pr.i + 1].from # pr.vm_index
       THEN /\ proc' = [proc EXCEPT ![p] = [pr EXCEPT !.i = @ + 1]]
            /\ UNCHANGED <<faults, nproc>>
     ELSE \E prep \in {spawn_prepare(pr.current_pipes, pr.spawned_count,
                                     graph.spawns[pr.i + 1])} :
       IF prep.ret # 0
         THEN /\ proc' = [proc EXCEPT ![p] = Exited(pr, prep.ret)]
              /\ UNCHANGED <<faults, nproc>>
       ELSE \E out \in ckb_spawn_outcomes :
         LET called == [pr EXCEPT !.prim = "spawn", !.ret = out.ret,
                                  !.spawned_count = @ + 1,
                                  !.spawn_calls = Append(@, pr.i)]
         IN /\ Spend(out.fault)
            /\ IF out.ret # 0
                 THEN /\ proc' = [proc EXCEPT ![p] =
                           Exited([called EXCEPT !.spawned_vms = Append(@, NoPid)],
                                  out.ret)]
                      /\ nproc' = nproc
                 ELSE /\ proc' = [proc EXCEPT
                           ![p] = [called EXCEPT !.spawned_vms = Append(@, nproc)],
                           ![nproc] = NewProc(prep.argv, p,
                                              UntilZero(prep.passed_pipes.ids))]
                      /\ nproc' = nproc + 1
  /\ UNCHANGED <<codec, mol, cases, data_buffer, graph, fdpool, quota, nfd, inflight>>

\* spawn_dag.c:172-250: one iteration of the loop over the spawn entries
Main_spawns(p) ==
  /\ proc[p].pc = "spawns"
  /\ LET pr == proc[p] IN
     IF ~(pr.i < Len(graph.spawns))
       THEN /\ proc' = [proc EXCEPT ![p] = [pr EXCEPT !.pc = "transfers", !.i = 0]]
            /\ UNCHANGED <<faults, nproc>>
     ELSE IF graph.spawns[pr.i + 1].from # pr.vm_index
       THEN /\ proc' = [proc EXCEPT ![p] = [pr EXCEPT !.i = @ + 1]]
            /\ UNCHANGED <<faults, nproc>>
     ELSE \E prep \in {spawn_prepare(pr.current_pipes, pr.spawned_count,
                                     graph.spawns[pr.i + 1])} :
       IF prep.ret # 0
         THEN /\ proc' = [proc EXCEPT ![p] = Exited(pr, prep.ret)]
              /\ UNCHANGED <<faults, nproc>>
       ELSE \E out \in ckb_spawn_outcomes :
         LET called == [pr EXCEPT !.prim = "spawn", !.ret = out.ret,
                                  !.spawned_count = @ + 1,
                                  !.spawn_calls = Append(@, pr.i)]
         IN /\ Spend(out.fault)
            /\ IF out.ret # 0
                 THEN /\ proc' = [proc EXCEPT ![p] =
                           Exited([called EXCEPT !.spawned_vms = Append(@, NoPid)],
                                  out.ret)]
                      /\ nproc' = nproc
                 ELSE /\ proc' = [proc EXCEPT
                           ![p] = [called EXCEPT !.spawned_vms = Append(@, nproc),
                                                 !.i = @ + 1],
                           ![nproc] = NewProc(prep.argv, p,
                                              UntilZero(prep.passed_pipes.ids))]
                      /\ nproc' = nproc + 1
  /\ UNCHANGED <<codec, mol, cases, data_buffer, graph, fdpool, quota, nfd, inflight>>

\* a loop over the write entries in which a process that is not the sender
\* of an entry reads for it
Main_transfers_any_reader(p) ==
  /\ proc[p].pc = "transfers"
  /\ LET pr == proc[p] IN
     proc' = [proc EXCEPT ![p] =
       IF ~(pr.i < Len(graph.writes))
         THEN [pr EXCEPT !.pc = "join", !.i = 0]
       ELSE LET write_seg == graph.writes[pr.i + 1]
                data_seg == MolReader_Write_get_data(write_seg)
            IN
         IF write_seg.from = pr.vm_index
           THEN LET found == pipes_find(pr.current_pipes, write_seg.from_fd) IN
                IF found.ret # 0 THEN Exited(pr, found.ret)
                ELSE IF 0 < Len(data_seg)
                  THEN [pr EXCEPT !.pc = "write", !.pipe_id = found.id, !.written = 0]
                  ELSE [pr EXCEPT !.i = @ + 1]
         ELSE LET found == pipes_find(pr.current_pipes, write_seg.to_fd) IN
                IF found.ret # 0 THEN Exited(pr, found.ret)
                ELSE IF 0 < Len(data_seg)
                  THEN [pr EXCEPT !.pc = "read", !.pipe_id = found.id, !.written = 0]
                  ELSE [pr EXCEPT !.i = @ + 1]]
  /\ UNCHANGED <<codec, mol, cases, data_buffer, graph, fdpool, quota, faults, nproc, nfd, inflight>>

\* a loop over the write entries in which every process that holds the
\* fromPipe of an entry writes its payload
Main_transfers_any_holder(p) ==
  /\ proc[p].pc = "transfers"
  /\ LET pr == proc[p] IN
     proc' = [proc EXCEPT ![p] =
       IF ~(pr.i < Len(graph.writes))
         THEN [pr EXCEPT !.pc = "join", !.i = 0]
       ELSE LET write_seg == graph.writes[pr.i + 1]
                data_seg == MolReader_Write_get_data(write_seg)
            IN
         IF pipes_find(pr.current_pipes, write_seg.from_fd).ret = 0
           THEN LET found == pipes_find(pr.current_pipes, write_seg.from_fd) IN
                IF 0 < Len(data_seg)
                  THEN [pr EXCEPT !.pc = "write", !.pipe_id = found.id, !.written = 0]
                  ELSE [pr EXCEPT !.i = @ + 1]
         ELSE IF write_seg.to = pr.vm_index
           THEN LET found == pipes_find(pr.current_pipes, write_seg.to_fd) IN
                IF found.ret # 0 THEN Exited(pr, found.ret)
                ELSE IF 0 < Len(data_seg)
                  THEN [pr EXCEPT !.pc = "read", !.pipe_id = found.id, !.written = 0]
                  ELSE [pr EXCEPT !.i = @ + 1]
         ELSE [pr EXCEPT !.i = @ + 1]]
  /\ UNCHANGED <<codec, mol, cases, data_buffer, graph, fdpool, quota, faults, nproc, nfd, inflight>>

\* a loop over the write entries that looks at the toNode of an entry first
Main_transfers_receiver_first(p) ==
  /\ proc[p].pc = "transfers"
  /\ LET pr == proc[p] IN
     proc' = [proc EXCEPT ![p] =
       IF ~(pr.i < Len(graph.writes))
         THEN [pr EXCEPT !.pc = "join", !.i = 0]
       ELSE LET write_seg == graph.writes[pr.i + 1]
                data_seg == MolReader_Write_get_data(write_seg)
            IN
         IF write_seg.to = pr.vm_index
           THEN LET found == pipes_find(pr.current_pipes, write_seg.to_fd) IN
                IF found.ret # 0 THEN Exited(pr, found.ret)
                ELSE IF 0 < Len(data_seg)
                  THEN [pr EXCEPT !.pc = "read", !.pipe_id = found.id, !.written = 0]
                  ELSE [pr EXCEPT !.i = @ + 1]
         ELSE IF write_seg.from = pr.vm_index
           THEN LET found == pipes_find(pr.current_pipes, write_seg.from_fd) IN
                IF found.ret # 0 THEN Exited(pr, found.ret)
                ELSE IF 0 < Len(data_seg)
                  THEN [pr EXCEPT !.pc = "write", !.pipe_id = found.id, !.written = 0]
                  ELSE [pr EXCEPT !.i = @ + 1]
         ELSE [pr EXCEPT !.i = @ + 1]]
  /\ UNCHANGED <<codec, mol, cases, data_buffer, graph, fdpool, quota, faults, nproc, nfd, inflight>>

\* spawn_dag.c:252-278, 291-305: one iteration of the loop over the write
\* entries, up to the first call of its write or read loop
Main_transfers(p) ==
  /\ proc[p].pc = "transfers"
  /\ LET pr == proc[p] IN
     proc' = [proc EXCEPT ![p] =
       IF ~(pr.i < Len(graph.writes))
         THEN [pr EXCEPT !.pc = "join", !.i = 0]
       ELSE LET write_seg == graph.writes[pr.i + 1]
                data_seg == MolReader_Write_get_data(write_seg)
            IN
         IF write_seg.from = pr.vm_index
           THEN LET found == pipes_find(pr.current_pipes, write_seg.from_fd) IN
                IF found.ret # 0 THEN Exited(pr, found.ret)
                ELSE IF 0 < Len(data_seg)
                  THEN [pr EXCEPT !.pc = "write", !.pipe_id = found.id, !.written = 0]
                  ELSE [pr EXCEPT !.i = @ + 1]
         ELSE IF write_seg.to = pr.vm_index
           THEN LET found == pipes_find(pr.current_pipes, write_seg.to_fd) IN
                IF found.ret # 0 THEN Exited(pr, found.ret)
                ELSE IF 0 < Len(data_seg)
                  THEN [pr EXCEPT !.pc = "read", !.pipe_id = found.id, !.written = 0]
                  ELSE [pr EXCEPT !.i = @ + 1]
         ELSE [pr EXCEPT !.i = @ + 1]]
  /\ UNCHANGED <<codec, mol, cases, data_buffer, graph, fdpool, quota, faults, nproc, nfd, inflight>>

Min(a, b) == IF a < b THEN a ELSE b

\* the bytes a process waiting in a read on pipe k still asks for (0: none waits)
ReadDemand(k) ==
  LET rs == {r \in Procs : /\ proc[r].pc = "read"
                            /\ ReadEndOf(proc[r].pipe_id) = k}
  IN IF rs = {} THEN 0
     ELSE LET r == CHOOSE r \in rs : TRUE
          IN Len(MolReader_Write_get_data(graph.writes[proc[r].i + 1])) - proc[r].written

\* what ckb_write(fd, buf, &length) may return: ret, and the count in length
ckb_write_outcomes(fd, length) ==
  LET k == WriteEndOf(fd) IN
  IF k = 0 THEN {[ret |-> CKB_INVALID_FD, length |-> 0, fault |-> FALSE]}
  ELSE {[ret |-> CKB_SUCCESS, length |-> n, fault |-> FALSE] :
          n \in 1..(IF inflight[k] = <<>> THEN Min(length, ReadDemand(k)) ELSE 0)}
       \cup (IF faults < quota
               THEN {[ret |-> CKB_OTHER_END_CLOSED, length |-> 0, fault |-> TRUE],
                     [ret |-> CKB_SUCCESS, length |-> 0, fault |-> TRUE]}
               ELSE {})

\* a write loop that takes a count of zero for the end of the payload
write_loop_body_truncating(pr, data_seg, out) ==
  LET taken == SubSeq(data_seg, pr.written + 1, pr.written + out.length)
      written == pr.written + out.length
      called == [pr EXCEPT !.prim = "write", !.ret = out.ret, !.length = out.length]
  IN IF out.ret # 0 THEN Exited(called, out.ret)
     ELSE IF out.length # 0 /\ written < Len(data_seg)
       THEN [called EXCEPT !.written = written, !.tx[pr.i + 1] = @ \o taken]
       ELSE [called EXCEPT !.written = written, !.tx[pr.i + 1] = @ \o taken,
                           !.pc = "transfers", !.i = @ + 1]

\* spawn_dag.c:281-289: the body of the write loop once ckb_write has
\* returned out.ret and stored out.length in length
write_loop_body(pr, data_seg, out) ==
  LET taken == SubSeq(data_seg, pr.written + 1, pr.written + out.length)
      written == pr.written + out.length
      called == [pr EXCEPT !.prim = "write", !.ret = out.ret, !.length = out.length]
  IN IF out.ret # 0 THEN Exited(called, out.ret)
     ELSE IF out.length = 0 THEN Exited(called, ERROR_PIPE_CLOSED)
     ELSE IF written < Len(data_seg)
       THEN [called EXCEPT !.written = written, !.tx[pr.i + 1] = @ \o taken]
       ELSE [called EXCEPT !.written = written, !.tx[pr.i + 1] = @ \o taken,
                           !.pc = "transfers", !.i = @ + 1]

\* spawn_dag.c:279-290: one iteration of the write loop
Main_write(p) ==
  /\ proc[p].pc = "write"
  /\ LET pr == proc[p]
         data_seg == MolReader_Write_get_data(graph.writes[pr.i + 1])
         length == Len(data_seg) - pr.written
     IN \E out \in ckb_write_outcomes(pr.pipe_id, length) :
          /\ Spend(out.fault)
          /\ inflight' = IF out.ret = CKB_SUCCESS /\ out.length > 0
                           THEN [inflight EXCEPT ![WriteEndOf(pr.pipe_id)] =
                                   SubSeq(data_seg, pr.written + 1,
                                          pr.written + out.length)]
                           ELSE inflight
          /\ proc' = [proc EXCEPT ![p] = write_loop_body(pr, data_seg, out)]
  /\ UNCHANGED <<codec, mol, cases, data_buffer, graph, fdpool, quota, nproc, nfd>>

\* a buffer one of whose bytes differs from what was written
Corrupted(bytes) == [bytes EXCEPT ![1] = U8(@ + 1)]

\* what ckb_read(fd, data, &length) may return: ret, the count, the bytes
ckb_read_outcomes(fd, length) ==
  LET k == ReadEndOf(fd) IN
  IF k = 0 THEN {[ret |-> CKB_INVALID_FD, length |-> 0, data |-> <<>>, fault |-> FALSE]}
  ELSE LET n == Min(length, Len(inflight[k]))
           got == SubSeq(inflight[k], 1, n)
       IN (IF n > 0
             THEN {[ret |-> CKB_SUCCESS, length |-> n, data |-> got, fault |-> FALSE]}
             ELSE {})
          \cup (IF faults < quota
                  THEN {[ret |-> CKB_OTHER_END_CLOSED, length |-> 0, data |-> <<>>,
                         fault |-> TRUE],
                        [ret |-> CKB_SUCCESS, length |-> 0, data |-> <<>>, fault |-> TRUE]}
                       \cup (IF n > 0
                               THEN {[ret |-> CKB_SUCCESS, length |-> n,
                                      data |-> Corrupted(got), fault |-> TRUE]}
                               ELSE {})
                  ELSE {})

\* spawn_dag.c:308-321: the body of the read loop once ckb_read has returned
\* out.ret, stored out.length in length and out.data in data
read_loop_body(pr, data_seg, out) ==
  LET read == pr.written + out.length
      expected == SubSeq(data_seg, pr.written + 1, pr.written + out.length)
      called == [pr EXCEPT !.prim = "read", !.ret = out.ret, !.length = out.length]
  IN IF out.ret # 0 THEN Exited(called, out.ret)
     ELSE IF out.length = 0 THEN Exited(called, ERROR_PIPE_CLOSED)
     ELSE IF expected # out.data
       THEN Exited([called EXCEPT !.rx[pr.i + 1] = @ \o out.data],
                   ERROR_CORRUPTED_DATA)
     ELSE IF read < Len(data_seg)
       THEN [called EXCEPT !.written = read, !.rx[pr.i + 1] = @ \o out.data]
       ELSE [called EXCEPT !.written = read, !.rx[pr.i + 1] = @ \o out.data,
                           !.pc = "transfers", !.i = @ + 1]

\* a read loop that has ckb_read store the bytes at &data_seg.ptr[read], in
\* the descriptor itself
Main_read_into_descriptor(p) ==
  /\ proc[p].pc = "read"
  /\ LET pr == proc[p]
         data_seg == MolReader_Write_get_data(graph.writes[pr.i + 1])
         length == Len(data_seg) - pr.written
     IN \E out \in ckb_read_outcomes(pr.pipe_id, length) :
          LET stored == [k \in 1..Len(data_seg) |->
                           IF pr.written < k /\ k <= pr.written + out.length
                             THEN out.data[k - pr.written] ELSE data_seg[k]]
          IN /\ Spend(out.fault)
             /\ inflight' = IF out.ret = CKB_SUCCESS /\ out.length > 0
                              THEN [inflight EXCEPT ![ReadEndOf(pr.pipe_id)] =
                                      SubSeq(@, out.length + 1, Len(@))]
                              ELSE inflight
             /\ graph' = IF out.ret = CKB_SUCCESS /\ out.length > 0
                           THEN [graph EXCEPT !.writes[pr.i + 1].data =
                                   MolReader_Bytes_raw_bytes(stored)]
                           ELSE graph
             /\ proc' = [proc EXCEPT ![p] = read_loop_body(pr, data_seg, out)]
  /\ UNCHANGED <<codec, mol, cases, data_buffer, fdpool, quota, nproc, nfd>>

\* spawn_dag.c:306-322: one iteration of the read loop
Main_read(p) ==
  /\ proc[p].pc = "read"
  /\ LET pr == proc[p]
         data_seg == MolReader_Write_get_data(graph.writes[pr.i + 1])
         length == Len(data_seg) - pr.written
     IN \E out \in ckb_read_outcomes(pr.pipe_id, length) :
          /\ Spend(out.fault)
          /\ inflight' = IF out.ret = CKB_SUCCESS /\ out.length > 0
                           THEN [inflight EXCEPT ![ReadEndOf(pr.pipe_id)] =
                                   SubSeq(@, out.length + 1, Len(@))]
                           ELSE inflight
          /\ proc' = [proc EXCEPT ![p] = read_loop_body(pr, data_seg, out)]
  /\ UNCHANGED <<codec, mol, cases, data_buffer, graph, fdpool, quota, nproc, nfd>>

\* what ckb_wait(pid, &exit_code) may return once the process has a status
ckb_wait_outcomes(pid) ==
  (IF pid \in Procs /\ proc[pid].pc = "done"
     THEN {[ret |-> CKB_SUCCESS, exit_code |-> proc[pid].exit_code, fault |-> FALSE]}
     ELSE {})
  \cup (IF faults < quota
          THEN {[ret |-> CKB_WAIT_FAILURE, exit_code |-> ToInt8(255), fault |-> TRUE]}
          ELSE {})

\* a join loop that looks at the result of the wait only
join_loop_body_no_status(pr, pid, out) ==
  LET called == [pr EXCEPT !.prim = "wait", !.ret = out.ret, !.waits = Append(@, pid)]
  IN IF out.ret # 0 THEN Exited(called, out.ret)
     ELSE [called EXCEPT !.i = @ + 1]

\* a join loop that goes on to the next child when a wait fails
join_loop_body_wait_ignored(pr, pid, out) ==
  LET called == [pr EXCEPT !.prim = "wait", !.ret = out.ret, !.waits = Append(@, pid)]
  IN IF out.ret = 0 /\ out.exit_code # 0 THEN Exited(called, out.exit_code)
     ELSE [called EXCEPT !.i = @ + 1]

\* spawn_dag.c:329-336: the body of the join loop once ckb_wait on pid has
\* returned out.ret and stored out.exit_code in exit_code
join_loop_body(pr, pid, out) ==
  LET called == [pr EXCEPT !.prim = "wait", !.ret = out.ret, !.waits = Append(@, pid)]
  IN IF out.ret # 0 THEN Exited(called, out.ret)
     ELSE IF out.exit_code # 0 THEN Exited(called, out.exit_code)
     ELSE [called EXCEPT !.i = @ + 1]

\* a join loop that waits for the children in the order they were spawned
Main_join_in_spawn_order(p) ==
  /\ proc[p].pc = "join"
  /\ LET pr == proc[p] IN
     IF ~(pr.i < pr.spawned_count)
       THEN /\ proc' = [proc EXCEPT ![p] = Exited(pr, 0)]
            /\ UNCHANGED faults
       ELSE LET j == pr.i
                pid == pr.spawned_vms[j + 1]
            IN \E out \in ckb_wait_outcomes(pid) :
                 /\ Spend(out.fault)
                 /\ proc' = [proc EXCEPT ![p] = join_loop_body(pr, pid, out)]
  /\ UNCHANGED <<codec, mol, cases, data_buffer, graph, fdpool, quota, nproc, nfd, inflight>>

\* spawn_dag.c:326-339: one iteration of the join loop, or return 0
Main_join(p) ==
  /\ proc[p].pc = "join"
  /\ LET pr == proc[p] IN
     IF ~(pr.i < pr.spawned_count)
       THEN /\ proc' = [proc EXCEPT ![p] = Exited(pr, 0)]
            /\ UNCHANGED faults
       ELSE LET j == pr.spawned_count - pr.i - 1
                pid == pr.spawned_vms[j + 1]
            IN \E out \in ckb_wait_outcomes(pid) :
                 /\ Spend(out.fault)
                 /\ proc' = [proc EXCEPT ![p] = join_loop_body(pr, pid, out)]
  /\ UNCHANGED <<codec, mol, cases, data_buffer, graph, fdpool, quota, nproc, nfd, inflight>>

Next ==
  \E p \in Procs :
    \/ Main_start(p)
    \/ Main_pipes(p)
    \/ Main_spawns(p)
    \/ Main_transfers(p)
    \/ Main_write(p)
    \/ Main_read(p)
    \/ Main_join(p)

\* every process instance that can take a step eventually takes one
Fairness == \A p \in Procs :
  WF_vars(Main_start(p) \/ Main_pipes(p) \/ Main_spawns(p) \/ Main_transfers(p)
          \/ Main_write(p) \/ Main_read(p) \/ Main_join(p))

Spec == Init /\ [][Next]_vars

\* the scheduler of the VM runs every process that is able to run
FairSpec == Spec /\ Fairness

(***************************************************************************)
(* The escape codec on its own: a source buffer is encoded into a          *)
(* destination of some capacity, and the encoded bytes are decoded into a  *)
(* destination of some capacity.                                           *)
(***************************************************************************)
\* the bytes the codec treats apart (0x00, 0xFE), their neighbours, and 0xFF
CodecBytes == {0, 1, 253, 254, 255}

RECURSIVE SeqsUpTo(_, _)
SeqsUpTo(S, n) ==
  IF n = 0 THEN {<<>>}
  ELSE LET shorter == SeqsUpTo(S, n - 1)
       IN shorter \cup {Append(q, b) : q \in {r \in shorter : Len(r) = n - 1}, b \in S}

InitCodec ==
  /\ graph = GraphHello
  /\ fdpool = PoolCkb
  /\ quota = 0
  /\ faults = 0
  /\ nproc = 0
  /\ nfd = 0
  /\ inflight = [k \in 1..(Len(fdpool) \div 2) |-> <<>>]
  /\ proc = [p \in Procs |-> NoProc]
  /\ data_buffer = Serialized(graph)
  /\ mol = MolOff
  /\ cases = CasesOff
  /\ \E x \in SeqsUpTo(CodecBytes, MaxLen) : codec = [op |-> "source", src |-> x]

\* ee_encode(dst, &dst_length, src, &src_length) with *dst_length = dl
Codec_encode ==
  /\ codec.op = "source"
  /\ \E dl \in 0..(ee_maximum_encoding_length(MaxLen) + 1) :
       codec' = [op |-> "encoded", src |-> codec.src, dl |-> dl,
                 enc |-> ee_encode(codec.src, dl)]
  /\ UNCHANGED <<mainvars, mol, cases>>

\* ee_decode(dst, &dst_length, src, &src_length) over the whole encoded
\* output, with *dst_length = dl
Codec_decode ==
  /\ codec.op = "encoded"
  /\ \E dl \in 0..(MaxLen + 1) :
       codec' = [op |-> "decoded", src |-> codec.src, dl |-> codec.dl,
                 enc |-> codec.enc, ddl |-> dl,
                 dec |-> ee_decode(SubSeq(codec.enc.dst, 1, codec.enc.dst_length), dl)]
  /\ UNCHANGED <<mainvars, mol, cases>>

\* both decoders on the source bytes as they are: ee_decode with
\* *dst_length = dl, and ee_decode_char_string_in_place on the string the
\* bytes make when a NUL follows them
Codec_decode_source ==
  /\ codec.op = "source"
  /\ \E dl \in 0..(MaxLen + 1) :
       codec' = [op |-> "parsed", src |-> codec.src, ddl |-> dl,
                 dec |-> ee_decode(codec.src, dl),
                 str |-> CString(codec.src \o <<0>>),
                 inplace |-> ee_decode_char_string_in_place(CString(codec.src \o <<0>>))]
  /\ UNCHANGED <<mainvars, mol, cases>>

\* ee_decode_char_string_in_place on the string the whole encoded output
\* makes when a NUL follows it
Codec_decode_in_place ==
  /\ codec.op = "encoded"
  /\ codec' = [op |-> "in_place", src |-> codec.src, dl |-> codec.dl,
               enc |-> codec.enc,
               str |-> CString(SubSeq(codec.enc.dst, 1, codec.enc.dst_length) \o <<0>>),
               inplace |-> ee_decode_char_string_in_place(
                 CString(SubSeq(codec.enc.dst, 1, codec.enc.dst_length) \o <<0>>))]
  /\ UNCHANGED <<mainvars, mol, cases>>

NextCodec == Codec_encode \/ Codec_decode \/ Codec_decode_source \/ Codec_decode_in_place

SpecCodec == InitCodec /\ [][NextCodec]_vars

(***************************************************************************)
(* The verification on its own: a buffer a builder has made of a           *)
(* descriptor, or such a buffer with one of its numbers changed, cut short *)
(* or with bytes after its end, is verified as main() verifies the witness *)
(* it has loaded.                                                          *)
(***************************************************************************)
\* a table (and a vector of tables that is not empty): the total size, the
\* offset of every field, the fields
MolTable(fields) ==
  LET header == MOL_NUM_T_SIZE * (Len(fields) + 1)
      start(i) == header + SumSeq([j \in 1..(i - 1) |-> Len(fields[j])])
  IN mol_pack_number(start(Len(fields) + 1))
       \o Flatten([i \in 1..Len(fields) |-> mol_pack_number(start(i))])
       \o Flatten(fields)
MolDynvec(items) ==
  IF items = <<>> THEN mol_pack_number(MOL_NUM_T_SIZE) ELSE MolTable(items)
\* a vector of items of one size: the count, the items
MolFixvec(items) == mol_pack_number(Len(items)) \o Flatten(items)

SpawnBytes(spawn) == MolTable(<<spawn.from, spawn.child, MolFixvec(spawn.fds)>>)
PipeBytes(pipe) == MolTable(<<pipe.vm, pipe.read_fd, pipe.write_fd>>)
WriteBytes(write) ==
  MolTable(<<write.from, write.from_fd, write.to, write.to_fd,
             MolReader_Write_get_data(write)>>)
\* the bytes a builder makes of a descriptor
DataBytes(g) ==
  MolTable(<<MolDynvec([k \in DOMAIN g.spawns |-> SpawnBytes(g.spawns[k])]),
             MolDynvec([k \in DOMAIN g.pipes |-> PipeBytes(g.pipes[k])]),
             MolDynvec([k \in DOMAIN g.writes |-> WriteBytes(g.writes[k])])>>)

\* a descriptor without entries
GraphEmpty == Data(<<>>, <<>>, <<>>)
MolGraphs == {GraphEmpty, GraphHello, GraphChain}

\* what is added to a number of a buffer
MolDeltas == {-8, -4, 1, 4}
\* what an array holds after the bytes that were loaded
MolPads == {0, 255}

\* the buffer with d added to the number its 4 bytes at position p hold
WithNumber(buf, p, d) ==
  LET n == mol_unpack_number(buf, 0, p)
      bytes == mol_pack_number(IF n + d < 0 THEN 2147483647 + (n + d + 1) ELSE n + d)
  IN IF n >= 1073741824 THEN buf
     ELSE [k \in 1..Len(buf) |-> IF k > p /\ k <= p + 4 THEN bytes[k - p] ELSE buf[k]]

\* the buffers of the runs
MolBuffers(g) ==
  LET buf == DataBytes(g) IN
  {buf, SubSeq(buf, 1, Len(buf) - 1), SubSeq(buf, 1, 3), buf \o <<0>>,
   SubSeq(buf, 1, Len(buf) - 4)}
  \cup {WithNumber(buf, p, d) : p \in 0..(Len(buf) - 4), d \in MolDeltas}

InitMol ==
  /\ graph \in MolGraphs
  /\ fdpool = PoolCkb
  /\ quota = 0
  /\ faults = 0
  /\ nproc = 0
  /\ nfd = 0
  /\ inflight = [k \in 1..(Len(fdpool) \div 2) |-> <<>>]
  /\ proc = [p \in Procs |-> NoProc]
  /\ data_buffer = Serialized(graph)
  /\ codec = CodecOff
  /\ cases = CasesOff
  /\ \E buf \in MolBuffers(graph), pad \in MolPads :
       mol = [op |-> "loaded", buf |-> buf, pad |-> pad]

\* spawn_dag.c:64-70: the segment of the bytes loaded is verified in strict
\* mode
Mol_verify ==
  /\ mol.op = "loaded"
  /\ mol' = [op |-> "verified", buf |-> mol.buf, pad |-> mol.pad,
             errno |-> MolReader_Data_verify(DataSegment(mol.buf, mol.pad, FALSE), FALSE)]
  /\ UNCHANGED <<mainvars, codec, cases>>

NextMol == Mol_verify

SpecMol == InitMol /\ [][NextMol]_vars

(***************************************************************************)
(* Well-formed graphs.                                                     *)
(***************************************************************************)
Range(f) == {f[k] : k \in DOMAIN f}
NodesOf(g) == {Root} \cup {g.spawns[k].child : k \in DOMAIN g.spawns}
ChildrenOf(g, n) == {k \in DOMAIN g.spawns : g.spawns[k].from = n}
OwnedBy(g, n) == {k \in DOMAIN g.pipes : g.pipes[k].vm = n}

RECURSIVE ReachedFrom(_, _)
\* the nodes the spawn entries lead to from the nodes in S
ReachedFrom(g, S) ==
  LET T == S \cup {g.spawns[k].child : k \in {l \in DOMAIN g.spawns : g.spawns[l].from \in S}}
  IN IF T = S THEN S ELSE ReachedFrom(g, T)

\* the spawn relation is a tree rooted at node 0
TreeShaped(g) ==
  /\ \A k \in DOMAIN g.spawns : g.spawns[k].child # Root
  /\ \A k, l \in DOMAIN g.spawns : g.spawns[k].child = g.spawns[l].child => k = l
  /\ ReachedFrom(g, {Root}) = NodesOf(g)
  /\ \A k \in DOMAIN g.spawns : g.spawns[k].from \in NodesOf(g)

RECURSIVE HoldsPipe(_, _, _, _)
\* node n owns pipe index x, or was passed it down from a node that holds it
HoldsPipe(g, n, x, fuel) ==
  \/ \E k \in OwnedBy(g, n) : x \in {g.pipes[k].read_fd, g.pipes[k].write_fd}
  \/ /\ fuel > 0
     /\ \E k \in DOMAIN g.spawns :
          /\ g.spawns[k].child = n
          /\ x \in Range(g.spawns[k].fds)
          /\ HoldsPipe(g, g.spawns[k].from, x, fuel - 1)

\* the registry entries node n ends up with
RegistrySize(g, n) ==
  2 * Cardinality(OwnedBy(g, n))
  + (IF \E k \in DOMAIN g.spawns : g.spawns[k].child = n
       THEN Len(g.spawns[CHOOSE k \in DOMAIN g.spawns : g.spawns[k].child = n].fds)
       ELSE 0)

\* the conditions the claim of termination names: the spawn relation is a
\* tree rooted at node 0, and for every write entry fromNode # toNode and
\* each of the two nodes holds the pipe index it is to use
NamedConditions(g) ==
  /\ TreeShaped(g)
  /\ \A k \in DOMAIN g.writes :
       LET w == g.writes[k] IN
       /\ w.from # w.to
       /\ w.from \in NodesOf(g) /\ w.to \in NodesOf(g)
       /\ HoldsPipe(g, w.from, w.from_fd, Len(g.spawns))
       /\ HoldsPipe(g, w.to, w.to_fd, Len(g.spawns))

WellFormed(g) ==
  /\ NamedConditions(g)
  \* pipe indices are unique within the descriptor
  /\ \A k, l \in DOMAIN g.pipes :
       /\ g.pipes[k].read_fd # g.pipes[l].write_fd
       /\ k # l => /\ g.pipes[k].read_fd # g.pipes[l].read_fd
                   /\ g.pipes[k].write_fd # g.pipes[l].write_fd
  /\ \A k \in DOMAIN g.pipes : g.pipes[k].vm \in NodesOf(g)
  \* a node holds every pipe index it makes visible to a child
  /\ \A k \in DOMAIN g.spawns : \A x \in Range(g.spawns[k].fds) :
       HoldsPipe(g, g.spawns[k].from, x, Len(g.spawns))
  /\ \A k \in DOMAIN g.writes :
       LET w == g.writes[k] IN
       \* a write entry goes over one pipe: from its write end to its read end
       /\ \E l \in DOMAIN g.pipes :
            g.pipes[l].write_fd = w.from_fd /\ g.pipes[l].read_fd = w.to_fd
       \* each end of a pipe is used by one node
       /\ \A l \in DOMAIN g.writes :
            g.writes[l].from_fd = w.from_fd =>
              g.writes[l].from = w.from /\ g.writes[l].to = w.to
  \* the graph fits the ceilings of the program and of the primitives
  /\ \A n \in NodesOf(g) :
       /\ Cardinality(ChildrenOf(g, n)) <= MAX_SPAWNED_VMS
       /\ RegistrySize(g, n) <= MAX_PIPE_COUNT
  /\ \A k \in DOMAIN g.spawns : Len(g.spawns[k].fds) <= MAX_PIPE_COUNT
  /\ Cardinality(NodesOf(g)) <= MaxProcs
  /\ 2 * Len(g.pipes) <= Len(fdpool)

\* a segment that is not a table of three vectors: total size other than the
\* size of the segment, a header that does not hold three offsets starting
\* right after it, offsets out of order or beyond the end, or a nested
\* vector that is not valid
FailsValidation(seg) ==
  \/ seg.size # seg.total_size
  \/ seg.size < MOL_NUM_T_SIZE * 4
  \/ seg.offsets[1] # MOL_NUM_T_SIZE * 4
  \/ seg.offsets[1] > seg.offsets[2] \/ seg.offsets[2] > seg.offsets[3]
  \/ seg.offsets[3] > seg.total_size
  \/ seg.spawns # "MOL_OK" \/ seg.pipes # "MOL_OK" \/ seg.writes # "MOL_OK"

\* a run of the graph: the root started without arguments on the witness a
\* builder made of the descriptor
RootRun == proc[0].argv = RootInvocation /\ data_buffer = Serialized(graph)

Created == {p \in Procs : proc[p].pc # "none"}
AllExited == \A p \in Created : proc[p].pc = "done"

\* the spawn entry a parent was working on when it started process p
SpawnEntryOf(p) ==
  LET q == proc[p].parent
      j == CHOOSE j \in 1..Len(proc[q].spawned_vms) : proc[q].spawned_vms[j] = p
  IN graph.spawns[proc[q].spawn_calls[j] + 1]

\* the indices a registry binds
IndicesOf(pipes) == {pipes.indices[j] : j \in 1..pipes.used}

\* process p is past the write entry k (1-based) of the descriptor
PastEntry(p, k) ==
  \/ proc[p].pc \in {"transfers", "write", "read"} /\ k <= proc[p].i
  \/ proc[p].pc = "join"

(***************************************************************************)
(* C1: in every run of a graph whose spawn relation is a tree rooted at    *)
(* node 0 and                                                              *)
(* whose write entries have fromNode # toNode and pipe indices held by     *)
(* their two nodes, when no primitive fails and the processes are          *)
(* scheduled fairly, every process terminates and the root exits with      *)
(* status 0: no process stays blocked in a write, a read or a wait.        *)
(***************************************************************************)
C1_Terminated ==
  /\ nproc = Cardinality(NodesOf(graph))
  /\ AllExited
  /\ proc[0].exit_code = 0

C2_HandOff ==
  [][\A p \in Procs :
       (/\ proc[p].pc = "start" /\ proc'[p].pc # "start"
        /\ faults' = faults
        /\ proc[p].parent # NoPid
        /\ TreeShaped(graph))
       => LET e == SpawnEntryOf(p)
              mine == proc'[p].current_pipes
              theirs == proc[proc[p].parent].current_pipes
          IN /\ proc'[p].pc = "pipes"
             /\ proc'[p].vm_index = e.child
             /\ mine.used = Len(e.fds)
             /\ \A i \in 1..Len(e.fds) :
                  /\ mine.indices[i] = e.fds[i]
                  /\ pipes_find(theirs, e.fds[i]).ret = CKB_SUCCESS
                  /\ mine.ids[i] = pipes_find(theirs, e.fds[i]).id
                  /\ pipes_find(mine, e.fds[i]) = pipes_find(theirs, e.fds[i])]_vars

C2_Witness ==
  \E p \in Procs :
    /\ graph = GraphChain /\ fdpool = PoolEscape
    /\ proc[p].parent # NoPid /\ proc[p].parent # 0
    /\ proc[p].pc = "pipes"
    /\ proc[p].vm_index = NodeB
    /\ proc[p].current_pipes.used = 2
    /\ pipes_find(proc[p].current_pipes, W2).id = PoolEscape[4]
    /\ pipes_find(proc[p].current_pipes, R1).id = PoolEscape[1]

(***************************************************************************)
(* C3: round trip of the escape codec.  For every byte sequence x, with    *)
(* bytes 0x00 and 0xFE among them, ee_encode into a destination of         *)
(* capacity >= 2 * len(x) returns 0 and takes all of x, and ee_decode of   *)
(* the whole encoded output into a destination of capacity >= len(x)       *)
(* returns 0 and yields x: the same length, the same bytes.                *)
(***************************************************************************)
C3_RoundTrip ==
  (/\ codec.op = "decoded"
   /\ codec.dl >= ee_maximum_encoding_length(Len(codec.src))
   /\ codec.ddl >= Len(codec.src))
  => /\ codec.enc.ret = 0
     /\ codec.enc.src_length = Len(codec.src)
     /\ codec.dec.ret = 0
     /\ codec.dec.src_length = codec.enc.dst_length
     /\ codec.dec.dst_length = Len(codec.src)
     /\ codec.dec.dst = codec.src

C3_Witness ==
  /\ codec.op = "decoded"
  /\ codec.src = <<0, 254, 255>>
  /\ codec.dl = 6 /\ codec.ddl = 3
  /\ codec.enc.dst = <<254, 255, 254, 253, 255>>
  /\ codec.dec.dst = <<0, 254, 255>>

(***************************************************************************)
(* C4: a node that is through its transfer phase without error has        *)
(* received, for every write entry whose toNode it is, exactly the bytes   *)
(* of the entry's payload (the items of its data field).                   *)
(***************************************************************************)
C4_ReceivedIsPayload ==
  \A p \in Procs : \A k \in DOMAIN graph.writes :
    (proc[p].pc = "join" /\ graph.writes[k].to = proc[p].vm_index)
    => proc[p].rx[k] = graph.writes[k].data

\* what the read loop does ensure: the bytes received are the data field as
\* it lies in the descriptor, the item count and then the items
ReceivedIsDataField ==
  \A p \in Procs : \A k \in DOMAIN graph.writes :
    (/\ proc[p].pc = "join"
     /\ graph.writes[k].to = proc[p].vm_index
     /\ graph.writes[k].from # proc[p].vm_index)
    => /\ proc[p].rx[k] = MolReader_Write_get_data(graph.writes[k])
       /\ MolReader_Bytes_raw_bytes(proc[p].rx[k]) = graph.writes[k].data

(***************************************************************************)
(* C5: when the write loop of a node is through a write entry whose        *)
(* fromNode it is, the byte counts the write primitive reported add up to  *)
(* the length of the entry's payload.                                      *)
(***************************************************************************)
C5_WrittenIsPayloadLength ==
  \A p \in Procs : \A k \in DOMAIN graph.writes :
    (PastEntry(p, k) /\ graph.writes[k].from = proc[p].vm_index)
    => Len(proc[p].tx[k]) = Len(graph.writes[k].data)

\* what the write loop does ensure: every call starts at the offset reached,
\* and the loop ends only when the whole data field has been taken
WrittenIsDataField ==
  \A p \in Procs : \A k \in DOMAIN graph.writes :
    /\ (PastEntry(p, k) /\ graph.writes[k].from = proc[p].vm_index)
       => proc[p].tx[k] = MolReader_Write_get_data(graph.writes[k])
    /\ (proc[p].pc = "write" /\ k = proc[p].i + 1)
       => /\ proc[p].written = Len(proc[p].tx[k])
          /\ proc[p].tx[k] = SubSeq(MolReader_Write_get_data(graph.writes[k]),
                                   1, proc[p].written)

(***************************************************************************)
(* C6: for a write entry with payload p, the sender hands len(p) bytes to  *)
(* the write primitive in all and the receiver reads len(p) bytes in all   *)
(* (12 for "Hello World!"), and the bytes that go over the pipe are the    *)
(* bytes of p with nothing before or after them.                           *)
(***************************************************************************)
C6_TransferIsPayload ==
  \A p \in Procs : \A k \in DOMAIN graph.writes :
    PastEntry(p, k)
    => /\ graph.writes[k].from = proc[p].vm_index
            => proc[p].tx[k] = graph.writes[k].data
       /\ (graph.writes[k].to = proc[p].vm_index
           /\ graph.writes[k].from # proc[p].vm_index)
            => proc[p].rx[k] = graph.writes[k].data

(***************************************************************************)
(* C7: when the write primitive (the read primitive) reports 0 bytes with  *)
(* no error while bytes of the entry remain, the write loop (the read      *)
(* loop) ends at once with ErrorPipeClosed: the node neither calls the     *)
(* primitive again nor goes on as if the entry were done.                  *)
(***************************************************************************)
C7_ZeroBytesIsPipeClosed ==
  [][\A p \in Procs :
       (/\ proc[p].pc \in {"write", "read"}
        /\ proc'[p] # proc[p]
        /\ proc'[p].ret = 0 /\ proc'[p].length = 0)
       => /\ proc'[p].pc = "done"
          /\ proc'[p].exit_code = ERROR_PIPE_CLOSED
          /\ proc'[p].tx = proc[p].tx /\ proc'[p].rx = proc[p].rx]_vars

C7_Witness ==
  \E p \in Procs : \E k \in DOMAIN graph.writes :
    /\ proc[p].pc = "done" /\ proc[p].exit_code = ERROR_PIPE_CLOSED
    /\ proc[p].ret = 0 /\ proc[p].length = 0
    /\ k = proc[p].i + 1
    /\ graph.writes[k].from = proc[p].vm_index
    /\ proc[p].tx[k] # <<>>
    /\ Len(proc[p].tx[k]) < Len(MolReader_Write_get_data(graph.writes[k]))

(***************************************************************************)
(* C8: the root returns 0 only if every process created in the run, at any *)
(* depth, has terminated with exit status 0 and has been waited on by its  *)
(* parent; so when some process exits non-zero and the root terminates,    *)
(* the status of the root is non-zero.                                     *)
(***************************************************************************)
C8_NoPartialSuccess ==
  (proc[0].pc = "done" /\ proc[0].exit_code = 0)
  => \A p \in Created :
       /\ proc[p].pc = "done"
       /\ proc[p].exit_code = 0
       /\ p # 0 => \E n \in DOMAIN proc[proc[p].parent].waits :
                     proc[proc[p].parent].waits[n] = p

C8_Witness ==
  /\ graph = GraphChain
  /\ proc[0].pc = "done" /\ proc[0].exit_code = 0
  /\ nproc = 3
  /\ proc[0].waits = <<1>> /\ proc[1].waits = <<2>>

(***************************************************************************)
(* C9: the join is fail-fast.  The children are waited on in the reverse   *)
(* of the order they were spawned in; the first wait that fails ends the   *)
(* node with the error of the wait, the first wait that yields a non-zero  *)
(* exit status ends it with that status, and a node that has ended issues  *)
(* no wait for the children it has not joined.                             *)
(***************************************************************************)
C9_JoinFailFast ==
  [][\A p \in Procs :
       /\ (proc[p].pc = "join" /\ Len(proc'[p].waits) > Len(proc[p].waits))
          => LET n == Len(proc'[p].waits)
                 pid == proc'[p].waits[n]
                 ret == proc'[p].ret
             IN /\ n = Len(proc[p].waits) + 1
                /\ pid = proc[p].spawned_vms[proc[p].spawned_count - n + 1]
                /\ ret # 0
                   => proc'[p].pc = "done" /\ proc'[p].exit_code = ret
                /\ (ret = 0 /\ proc[pid].exit_code # 0)
                   => /\ proc'[p].pc = "done"
                      /\ proc'[p].exit_code = proc[pid].exit_code
                /\ (ret = 0 /\ proc[pid].exit_code = 0)
                   => proc'[p].pc = "join"
       /\ proc[p].pc = "done" => proc'[p] = proc[p]]_vars

C9_Witness ==
  /\ graph = GraphLastChildFails
  /\ proc[0].pc = "done"
  /\ proc[0].spawned_count = 2
  /\ proc[0].waits = <<2>>
  /\ proc[2].exit_code = ERROR_NOT_FOUND
  /\ proc[0].ret = 0
  /\ proc[0].exit_code = ERROR_NOT_FOUND
  /\ proc[1].pc = "done"

(***************************************************************************)
(* C10: when a node comes to a spawn entry of its own that lists a pipe    *)
(* index its registry does not hold, it fails with the not-found error,    *)
(* and the spawn primitive is invoked neither for that entry nor for a     *)
(* later one.                                                              *)
(***************************************************************************)
MissingAt(p) ==
  LET e == graph.spawns[proc[p].i + 1]
  IN {m \in 1..Len(e.fds) : e.fds[m] \notin IndicesOf(proc[p].current_pipes)}

AtEntryWithMissingPipe(p) ==
  /\ proc[p].pc = "spawns"
  /\ proc[p].i < Len(graph.spawns)
  /\ graph.spawns[proc[p].i + 1].from = proc[p].vm_index
  /\ MissingAt(p) # {}

NoSpawnFrom(p) ==
  /\ proc'[p].pc = "done"
  /\ proc'[p].spawn_calls = proc[p].spawn_calls
  /\ proc'[p].spawned_count = proc[p].spawned_count
  /\ nproc' = nproc

C10_MissingPipeIsNotFound ==
  [][\A p \in Procs :
       (AtEntryWithMissingPipe(p) /\ proc'[p] # proc[p])
       => /\ NoSpawnFrom(p)
          /\ proc'[p].exit_code = ERROR_NOT_FOUND]_vars

(***************************************************************************)
(* C10, amended: such a node fails before the spawn primitive is invoked   *)
(* for that entry or a later one, with the error of the first check that   *)
(* fails: ErrorTooManySpawns when it has spawned MAX_SPAWNED_VMS children  *)
(* already, else ErrorNoSpaceForPipes when more than MAX_PIPE_COUNT        *)
(* indices come before the first one it does not hold, else the not-found  *)
(* error.                                                                  *)
(***************************************************************************)
C10_MissingPipeFailsBeforeSpawn ==
  [][\A p \in Procs :
       /\ (AtEntryWithMissingPipe(p) /\ proc'[p] # proc[p])
           => LET first == CHOOSE m \in MissingAt(p) :
                             \A o \in MissingAt(p) : m <= o
              IN /\ NoSpawnFrom(p)
                 /\ proc'[p].exit_code =
                      IF proc[p].spawned_count >= MAX_SPAWNED_VMS
                        THEN ERROR_TOO_MANY_SPAWNS
                      ELSE IF first - 1 > MAX_PIPE_COUNT
                        THEN ERROR_NO_SPACE_FOR_PIPES
                      ELSE ERROR_NOT_FOUND
       /\ proc[p].pc = "done" => proc'[p] = proc[p]]_vars

C10_Witness ==
  /\ graph = GraphNotFound
  /\ proc[0].pc = "done" /\ proc[0].exit_code = ERROR_NOT_FOUND
  /\ proc[0].i = 1
  /\ proc[0].spawn_calls = <<0>>
  /\ nproc = 2


(***************************************************************************)
(* C11: spawn ceiling.  A node never invokes the spawn primitive more than *)
(* MAX_SPAWNED_VMS times; when it meets one more spawn entry with          *)
(* fromNode = nodeIndex after that many invocations, it returns            *)
(* ErrorTooManySpawns and the spawn primitive is not invoked for the       *)
(* entry.                                                                  *)
(***************************************************************************)
C11_SpawnCeiling ==
  [][\A p \in Procs :
       /\ Len(proc'[p].spawn_calls) <= MAX_SPAWNED_VMS
       /\ (/\ proc[p].pc = "spawns"
           /\ proc[p].i < Len(graph.spawns)
           /\ graph.spawns[proc[p].i + 1].from = proc[p].vm_index
           /\ Len(proc[p].spawn_calls) >= MAX_SPAWNED_VMS
           /\ proc'[p] # proc[p])
          => /\ proc'[p].pc = "done"
             /\ proc'[p].exit_code = ERROR_TOO_MANY_SPAWNS
             /\ proc'[p].spawn_calls = proc[p].spawn_calls
             /\ nproc' = nproc]_vars

C11_Witness ==
  \E p \in Procs :
    /\ proc[p].pc = "done"
    /\ proc[p].exit_code = ERROR_TOO_MANY_SPAWNS
    /\ Len(proc[p].spawn_calls) = MAX_SPAWNED_VMS
    /\ nproc = MAX_SPAWNED_VMS + 1
    /\ Len(graph.spawns) > MAX_SPAWNED_VMS


(***************************************************************************)
(* C12: a spawned node exits with ErrorArgv, before it creates a pipe,     *)
(* spawns a child or does pipe I/O, whenever its argument count is neither *)
(* 0 nor 2, its decoded node index is not exactly 8 bytes, no spawn entry  *)
(* has childNode equal to the decoded node index, or the decoded length of *)
(* its second argument differs from 8 times the number of visiblePipes of  *)
(* the matching spawn entry.  A node is a process that holds a descriptor: *)
(* the load and the verification of the witness come before the arguments  *)
(* are looked at, and a process that fails there exits with the status of  *)
(* the load, or with ErrorEncoding, whatever its arguments are.            *)
(***************************************************************************)
\* the conditions the claim names, on the arguments of process p; the
\* matching spawn entry is the first whose child is the decoded index
BadArguments(p) ==
  LET args == proc[p].argv
      argc == Len(args)
      index == ee_decode_char_string_in_place(args[1])
      matching == {k \in DOMAIN graph.spawns : graph.spawns[k].child = index.buf}
      entry == graph.spawns[CHOOSE k \in matching : \A l \in matching : k <= l]
      handles == ee_decode_char_string_in_place(args[2])
  IN \/ argc \notin {0, 2}
     \/ /\ argc = 2 /\ index.ret = 0
        /\ \/ index.length # 8
           \/ matching = {}
           \/ /\ handles.ret = 0
              /\ handles.length # 8 * Len(entry.fds)

\* p leaves its first stretch with ErrorArgv and has done nothing else
ExitsWithErrorArgv(p) ==
  /\ proc'[p].pc = "done"
  /\ proc'[p].exit_code = ERROR_ARGV
  /\ proc'[p].prim = "load_witness"
  /\ proc'[p].current_pipes = pipes_init
  /\ proc'[p].spawn_calls = <<>>
  /\ \A k \in DOMAIN proc'[p].tx : proc'[p].tx[k] = <<>> /\ proc'[p].rx[k] = <<>>
  /\ nfd' = nfd /\ nproc' = nproc /\ inflight' = inflight

C12_BadArgumentsAreErrorArgv ==
  [][\A p \in Procs :
       (proc[p].pc = "start" /\ proc'[p] # proc[p] /\ BadArguments(p))
       => IF proc'[p].ret # CKB_SUCCESS
            THEN proc'[p].pc = "done" /\ proc'[p].exit_code = proc'[p].ret
          ELSE IF FailsValidation(data_buffer)
            THEN proc'[p].pc = "done" /\ proc'[p].exit_code = ERROR_ENCODING
          ELSE ExitsWithErrorArgv(p)]_vars

C12_Witness ==
  /\ proc[0].argv = <<ArgOf(NodeA), ArgOf(<<1, 2, 3>>)>>
  /\ graph = GraphHello
  /\ proc[0].pc = "done"
  /\ proc[0].exit_code = ERROR_ARGV
  /\ proc[0].errno = "MOL_OK"
  /\ proc[0].decoded = 2


(***************************************************************************)
(* C13: a node, root or spawned, whose graph buffer fails validation exits *)
(* with ErrorEncoding before it reads a field of the descriptor, before it *)
(* decodes an argument, and without invoking the pipe, spawn, write, read  *)
(* or wait primitive.                                                      *)
(***************************************************************************)
C13_InvalidBufferIsErrorEncoding ==
  [][\A p \in Procs :
       (/\ proc[p].pc = "start" /\ proc'[p] # proc[p]
        /\ proc'[p].ret = CKB_SUCCESS
        /\ FailsValidation(data_buffer))
       => /\ proc'[p].pc = "done"
          /\ proc'[p].exit_code = ERROR_ENCODING
          /\ proc'[p].decoded = 0
          /\ ~proc'[p].looked_up
          /\ proc'[p].vm_index = NoProc.vm_index
          /\ proc'[p].prim = "load_witness"
          /\ proc'[p].current_pipes = pipes_init
          /\ proc'[p].spawn_calls = <<>> /\ proc'[p].waits = <<>>
          /\ \A k \in DOMAIN proc'[p].tx :
               proc'[p].tx[k] = <<>> /\ proc'[p].rx[k] = <<>>
          /\ nfd' = nfd /\ nproc' = nproc /\ inflight' = inflight]_vars

C13_Witness ==
  /\ proc[0].argv = <<ArgOf(NodeA), ArgOf(<<>>)>>
  /\ data_buffer.writes # "MOL_OK"
  /\ proc[0].pc = "done"
  /\ proc[0].exit_code = ERROR_ENCODING
  /\ proc[0].errno = "MOL_ERR_DATA"
  /\ proc[0].decoded = 0


(***************************************************************************)
(* C14: a non-zero status returned by the pipe, spawn, write, read or wait *)
(* primitive is the exit status of the node, unchanged, and the node calls *)
(* no primitive after it: it has exited, and takes no further step.        *)
(***************************************************************************)
C14_PrimitiveFailureIsExitStatus ==
  [][\A p \in Procs :
       /\ (/\ proc'[p] # proc[p]
           /\ proc'[p].prim \in {"pipe", "spawn", "write", "read", "wait"}
           /\ proc'[p].ret # 0)
          => /\ proc'[p].pc = "done"
             /\ proc'[p].exit_code = proc'[p].ret
       /\ proc[p].pc = "done" => proc'[p] = proc[p]]_vars

\* a node whose write failed has exited with the status of the write and
\* has not waited for the child it had spawned
C14_Witness ==
  \E p \in Procs :
    /\ proc[p].pc = "done"
    /\ proc[p].prim = "write"
    /\ proc[p].ret = CKB_OTHER_END_CLOSED
    /\ proc[p].exit_code = CKB_OTHER_END_CLOSED
    /\ proc[p].spawn_calls # <<>>
    /\ proc[p].waits = <<>>


(***************************************************************************)
(* C15: every encoding failure, a graph buffer that fails validation or an *)
(* argument of a spawned node that ends in a dangling 0xFE, makes the node *)
(* exit with the one ErrorEncoding code, which is positive and differs     *)
(* from the codes of ErrorArgv, ErrorTooManySpawns, ErrorPipeClosed and    *)
(* ErrorCorruptedData.                                                     *)
(***************************************************************************)
RECURSIVE TrailingMarkers(_)
\* the number of 0xFE bytes the string ends in
TrailingMarkers(bytes) ==
  IF bytes = <<>> \/ bytes[Len(bytes)] # 254 THEN 0
  ELSE 1 + TrailingMarkers(SubSeq(bytes, 1, Len(bytes) - 1))

\* the last byte is a marker and not the byte a marker escapes
DanglingMarker(bytes) == TrailingMarkers(bytes) % 2 = 1

\* an argument main() decodes ends in a dangling marker: the first, or the
\* second when the first names a spawn entry
DanglingArgument(p) ==
  LET args == proc[p].argv
      index == ee_decode_char_string_in_place(args[1])
  IN /\ Len(args) = 2
     /\ \/ DanglingMarker(args[1])
        \/ /\ index.ret = 0 /\ index.length = 8
           /\ \E k \in DOMAIN graph.spawns : graph.spawns[k].child = index.buf
           /\ DanglingMarker(args[2])

C15_OneEncodingErrorCode ==
  [][\A p \in Procs :
       (/\ proc[p].pc = "start" /\ proc'[p] # proc[p]
        /\ proc'[p].ret = CKB_SUCCESS
        /\ FailsValidation(data_buffer) \/ DanglingArgument(p))
       => /\ proc'[p].pc = "done"
          /\ proc'[p].exit_code = ERROR_ENCODING
          /\ ERROR_ENCODING > 0
          /\ ERROR_ENCODING \notin {ERROR_ARGV, ERROR_TOO_MANY_SPAWNS,
                                    ERROR_PIPE_CLOSED, ERROR_CORRUPTED_DATA}]_vars

\* what the code ensures: a graph buffer that fails validation ends the node
\* with ERROR_ENCODING, a dangling marker in an argument of a node with a
\* valid graph buffer ends it with the error code of the codec
EncodingFailureCodes ==
  [][\A p \in Procs :
       (/\ proc[p].pc = "start" /\ proc'[p] # proc[p]
        /\ proc'[p].ret = CKB_SUCCESS
        /\ FailsValidation(data_buffer) \/ DanglingArgument(p))
       => /\ proc'[p].pc = "done"
          /\ proc'[p].exit_code = IF FailsValidation(data_buffer) THEN ERROR_ENCODING
                                  ELSE ESCAPE_ERROR_ENCODING]_vars


(***************************************************************************)
(* C16: root bootstrap.  A process invoked with zero arguments runs as     *)
(* node 0 with an empty inherited registry, decodes no argument and looks  *)
(* up no spawn entry.  A process invoked with arguments takes the path of  *)
(* a spawned node: it goes on only with two decoded arguments and as the   *)
(* node its first argument names, the child of a spawn entry, never as     *)
(* node 0 by default; otherwise it exits with an error.                    *)
(***************************************************************************)
C16_RootBootstrap ==
  [][\A p \in Procs :
       (proc[p].pc = "start" /\ proc'[p] # proc[p])
       => IF Len(proc[p].argv) = 0
            THEN /\ proc'[p].decoded = 0
                 /\ ~proc'[p].looked_up
                 /\ proc'[p].vm_index = Zero64
                 /\ proc'[p].current_pipes = pipes_init
                 /\ proc'[p].inherited = pipes_init
                 /\ (proc'[p].ret = CKB_SUCCESS /\ ~FailsValidation(data_buffer))
                      => proc'[p].pc = "pipes"
            ELSE IF proc'[p].pc = "done"
              THEN proc'[p].exit_code # 0
            ELSE /\ Len(proc[p].argv) = 2
                 /\ proc'[p].decoded = 2
                 /\ proc'[p].looked_up
                 /\ proc'[p].vm_index =
                      ee_decode_char_string_in_place(proc[p].argv[1]).buf
                 /\ \E k \in DOMAIN graph.spawns :
                      graph.spawns[k].child = proc'[p].vm_index]_vars

\* the root, started without arguments, waits as node 0 for a child that was
\* started with two arguments and runs as the node the first of them names
C16_Witness ==
  /\ proc[0].argv = <<>>
  /\ proc[0].pc = "join"
  /\ proc[0].vm_index = Zero64
  /\ proc[0].inherited = pipes_init
  /\ proc[0].decoded = 0
  /\ \E p \in Procs :
       /\ proc[p].parent = 0
       /\ proc[p].pc \in {"transfers", "write", "read", "join"}
       /\ Len(proc[p].argv) = 2
       /\ proc[p].vm_index # Zero64
       /\ proc[p].decoded = 2


(***************************************************************************)
(* C17: registry entries are write-once.  Find on an index that was never  *)
(* added returns ErrorNotFound; once Find(i) has returned handle h it      *)
(* returns h for the rest of the life of the process, after every later    *)
(* Add, an Add of i with another handle among them, and after the spawn,   *)
(* transfer and join steps, none of which removes or changes an entry.     *)
(***************************************************************************)
\* the pipe indices of the runs
PipeIndexes == {R1, W1, R2, W2, Unknown}

\* what Find(x) is to return after the Adds of the list: the handle of the
\* first of them for x
FirstAdded(adds, x) ==
  LET ks == {k \in DOMAIN adds : adds[k].index = x}
  IN IF ks = {} THEN [ret |-> ERROR_NOT_FOUND, id |-> Zero64]
     ELSE [ret |-> CKB_SUCCESS, id |-> adds[CHOOSE k \in ks : \A l \in ks : k <= l].id]

C17_WriteOnce ==
  [][\A p \in Procs :
       /\ \A x \in PipeIndexes :
            /\ pipes_find(proc'[p].current_pipes, x) = FirstAdded(proc'[p].adds, x)
            /\ (proc[p].pc # "none" /\ pipes_find(proc[p].current_pipes, x).ret = 0)
                 => pipes_find(proc'[p].current_pipes, x)
                      = pipes_find(proc[p].current_pipes, x)
       /\ proc[p].pc \in {"spawns", "transfers", "write", "read", "join"}
            => /\ proc'[p].current_pipes = proc[p].current_pipes
               /\ proc'[p].adds = proc[p].adds]_vars

\* the root has added R1 twice, with two handles, and has passed on, written
\* and waited since: Find(R1) is the handle added first
C17_Witness ==
  /\ graph = GraphSameIndex
  /\ proc[0].pc = "done" /\ proc[0].exit_code = 0
  /\ Len(proc[0].adds) = 4
  /\ proc[0].adds[1].index = R1 /\ proc[0].adds[3].index = R1
  /\ proc[0].adds[1].id # proc[0].adds[3].id
  /\ pipes_find(proc[0].current_pipes, R1).id = proc[0].adds[1].id
  /\ pipes_find(proc[0].current_pipes, Unknown).ret = ERROR_NOT_FOUND


(***************************************************************************)
(* C18: registry capacity.  A registry never has more than MAX_PIPE_COUNT  *)
(* entries; an Add on a full registry returns ErrorNoSpace and leaves the  *)
(* entries and their count as they are; and the node that gets this error  *)
(* while it binds its inherited handles, registers a pipe it owns or       *)
(* builds the pipe list of a child exits with it.                          *)
(***************************************************************************)
\* the registry is one a process can have: as many indices as used says,
\* the handles followed by the zero entry
RegistryInBounds(pipes) ==
  /\ pipes.used <= MAX_PIPE_COUNT
  /\ Len(pipes.indices) = pipes.used
  /\ Len(pipes.ids) = pipes.used + 1

\* the first n visible pipes of the entry are all in the registry
FirstResolved(pipes, fds, n) ==
  /\ Len(fds) >= n
  /\ \A k \in 1..n : pipes_find(pipes, fds[k]).ret = 0

\* p is to bind more inherited handles than a registry takes
BindsTooMany(p) ==
  LET args == proc[p].argv
      index == ee_decode_char_string_in_place(args[1])
      matching == {k \in DOMAIN graph.spawns : graph.spawns[k].child = index.buf}
      entry == graph.spawns[CHOOSE k \in matching : \A l \in matching : k <= l]
      handles == ee_decode_char_string_in_place(args[2])
  IN /\ Len(args) = 2
     /\ index.ret = 0 /\ index.length = 8 /\ matching # {}
     /\ handles.ret = 0 /\ handles.length = 8 * Len(entry.fds)
     /\ Len(entry.fds) > MAX_PIPE_COUNT

C18_RegistryCapacity ==
  [][\A p \in Procs :
       LET pr == proc[p]
           exits == /\ proc'[p].pc = "done"
                    /\ proc'[p].exit_code = ERROR_NO_SPACE_FOR_PIPES
                    /\ proc'[p].spawn_calls = pr.spawn_calls
                    /\ nproc' = nproc
       IN
       /\ RegistryInBounds(proc'[p].current_pipes)
       /\ Len(proc'[p].inherited_fds) <= MAX_PIPE_COUNT
       \* an Add on a full registry
       /\ proc'[p].current_pipes.used = MAX_PIPE_COUNT
            => \A x \in PipeIndexes, id \in Range(fdpool) :
                 pipes_add(proc'[p].current_pipes, x, id)
                   = [ret |-> ERROR_NO_SPACE_FOR_PIPES, pipes |-> proc'[p].current_pipes]
       \* binding the inherited handles
       /\ (/\ pr.pc = "start" /\ proc'[p] # pr
           /\ proc'[p].ret = CKB_SUCCESS /\ ~FailsValidation(data_buffer)
           /\ BindsTooMany(p))
            => exits
       \* registering an owned pipe
       /\ (/\ pr.pc = "pipes" /\ proc'[p] # pr
           /\ proc'[p].prim = "pipe" /\ nfd' = nfd + 2
           /\ pr.current_pipes.used + 2 > MAX_PIPE_COUNT)
            => /\ exits
               /\ SubSeq(proc'[p].current_pipes.indices, 1, pr.current_pipes.used)
                    = pr.current_pipes.indices
               /\ SubSeq(proc'[p].current_pipes.ids, 1, pr.current_pipes.used)
                    = SubSeq(pr.current_pipes.ids, 1, pr.current_pipes.used)
       \* building the pipe list of a child
       /\ (/\ pr.pc = "spawns" /\ proc'[p] # pr
           /\ pr.i < Len(graph.spawns)
           /\ graph.spawns[pr.i + 1].from = pr.vm_index
           /\ Len(pr.spawn_calls) < MAX_SPAWNED_VMS
           /\ FirstResolved(pr.current_pipes, graph.spawns[pr.i + 1].fds,
                            MAX_PIPE_COUNT + 1))
            => /\ exits
               /\ proc'[p].current_pipes = pr.current_pipes]_vars

\* a node whose registry was full after the first handle of the pipe it owns
\* has exited with ErrorNoSpace, its registry full and its inherited entries
\* in place
C18_Witness ==
  \E p \in Procs :
    /\ proc[p].parent # NoPid
    /\ proc[p].pc = "done"
    /\ proc[p].exit_code = ERROR_NO_SPACE_FOR_PIPES
    /\ proc[p].prim = "pipe" /\ proc[p].ret = CKB_SUCCESS
    /\ proc[p].current_pipes.used = MAX_PIPE_COUNT
    /\ proc[p].inherited.used = MAX_PIPE_COUNT - 1
    /\ SubSeq(proc[p].current_pipes.indices, 1, MAX_PIPE_COUNT - 1)
         = proc[p].inherited.indices


(***************************************************************************)
(* C19: the output of ee_encode holds no 0x00 byte.  A source byte 0x00    *)
(* becomes the pair [0xFE, 0xFF], a source byte 0xFE the pair [0xFE,       *)
(* 0xFD], every other byte is emitted as it is; the encoded length is      *)
(* len(x) plus the number of 0x00 and 0xFE bytes of x and is never more    *)
(* than 2 * len(x).  The output of ee_encode of x is what it writes into a *)
(* destination of the capacity ee_maximum_encoding_length(len(x)) or more; *)
(* into a smaller one it writes the same for the bytes of x it takes.      *)
(***************************************************************************)
\* what the claim gives for one source byte
Escaped(byte) ==
  IF byte = 0 THEN <<254, 255>>
  ELSE IF byte = 254 THEN <<254, 253>>
  ELSE <<byte>>

\* the number of 0x00 and 0xFE bytes
Specials(bytes) == Cardinality({k \in DOMAIN bytes : bytes[k] \in {0, 254}})

C19_EncodedForm ==
  codec.op \in {"encoded", "decoded"}
  => LET x == codec.src
         enc == codec.enc
         taken == SubSeq(x, 1, enc.src_length)
     IN /\ enc.ret = 0
        /\ \A k \in DOMAIN enc.dst : enc.dst[k] # 0
        /\ enc.src_length <= Len(x)
        /\ enc.dst = Flatten([k \in DOMAIN taken |-> Escaped(taken[k])])
        /\ enc.dst_length = Len(enc.dst)
        /\ enc.dst_length = Len(taken) + Specials(taken)
        /\ enc.dst_length <= ee_maximum_encoding_length(Len(x))
        /\ enc.dst_length <= codec.dl
        /\ codec.dl >= Len(x) + Specials(x) => enc.src_length = Len(x)
        /\ Len(x) + Specials(x) <= ee_maximum_encoding_length(Len(x))

C19_Witness ==
  /\ codec.op = "encoded"
  /\ codec.src = <<0, 254, 1>>
  /\ codec.dl = ee_maximum_encoding_length(3)
  /\ codec.enc.dst = <<254, 255, 254, 253, 1>>
  /\ codec.enc.dst_length = 5

(***************************************************************************)
(* C20: both decoders fail with the encoding error exactly when they reach *)
(* an escape marker 0xFE that has no following byte, the end of the buffer *)
(* for ee_decode and the NUL terminator for                                *)
(* ee_decode_char_string_in_place; on every input without such a dangling  *)
(* marker they return 0.  ee_decode reaches the end of its source unless   *)
(* its destination is full before.                                         *)
(***************************************************************************)
RECURSIVE Unescaped(_)
\* the bytes a sequence of plain bytes and of pairs of a marker and a byte
\* stands for
Unescaped(bytes) ==
  IF bytes = <<>> THEN <<>>
  ELSE IF bytes[1] # 254 THEN <<bytes[1]>> \o Unescaped(Tail(bytes))
  ELSE IF Len(bytes) = 1 THEN <<>>
  ELSE <<U8(bytes[2] + 1)>> \o Unescaped(SubSeq(bytes, 3, Len(bytes)))

C20_DanglingMarkerFails ==
  codec.op = "parsed"
  => LET x == codec.src
         before == SubSeq(x, 1, Len(x) - 1)
     IN /\ codec.dec.ret \in {0, ESCAPE_ERROR_ENCODING}
        /\ codec.dec.ret = ESCAPE_ERROR_ENCODING
             <=> (DanglingMarker(x) /\ Len(Unescaped(before)) < codec.ddl)
        /\ ~DanglingMarker(x) => codec.dec.ret = 0
        /\ codec.inplace.ret \in {0, ESCAPE_ERROR_ENCODING}
        /\ codec.inplace.ret = ESCAPE_ERROR_ENCODING <=> DanglingMarker(codec.str)
        /\ ~DanglingMarker(codec.str)
             => /\ codec.inplace.ret = 0
                /\ codec.inplace.buf = Unescaped(codec.str)

\* in <<0xFE, 0xFE, 0xFE>> the first marker escapes the second byte and the
\* third byte is a marker with no following byte
C20_Witness ==
  /\ codec.op = "parsed"
  /\ codec.src = <<254, 254, 254>>
  /\ codec.ddl = 2
  /\ codec.dec.ret = ESCAPE_ERROR_ENCODING
  /\ codec.inplace.ret = ESCAPE_ERROR_ENCODING


(***************************************************************************)
(* C21: partial encode.  Into a destination of any capacity ee_encode      *)
(* returns 0 and reports the count of source bytes it has taken and the    *)
(* count of bytes it has written.  It writes no more than the capacity,    *)
(* and what it has written is the encoding of the source bytes it has      *)
(* taken, each of them whole: a plain byte or both bytes of a pair, never  *)
(* the marker alone.  It stops before the end of the source only when the  *)
(* next source byte does not fit: the destination is full, or one byte is  *)
(* free and the next source byte needs a pair.  With a capacity of         *)
(* 2 * len(src) or more it takes all of the source.                        *)
(***************************************************************************)
\* the bytes left free do not take the encoding of the source byte at ss
\* (0-based)
DoesNotFit(src, ss, free) == free < Len(Escaped(src[ss + 1]))

C21_PartialEncode ==
  codec.op \in {"encoded", "decoded"}
  => LET src == codec.src
         enc == codec.enc
         taken == SubSeq(src, 1, enc.src_length)
         pairs == [k \in DOMAIN taken |-> Escaped(taken[k])]
     IN /\ enc.ret = 0
        /\ enc.src_length \in 0..Len(src)
        /\ enc.dst_length \in 0..codec.dl
        /\ Len(enc.dst) = enc.dst_length
        /\ enc.dst = Flatten(pairs)
        /\ enc.src_length < Len(src)
             => DoesNotFit(src, enc.src_length, codec.dl - enc.dst_length)
        /\ codec.dl >= 2 * Len(src) => enc.src_length = Len(src)

\* one byte is free when the marker 0xFE is next: the encoder stops there
C21_Witness ==
  /\ codec.op = "encoded"
  /\ codec.src = <<1, 254, 255>>
  /\ codec.dl = 2
  /\ codec.enc.ret = 0
  /\ codec.enc.src_length = 1
  /\ codec.enc.dst_length = 1
  /\ codec.enc.dst = <<1>>


StepOf(prim) ==
  CASE prim = "none" -> 0
    [] prim = "load_witness" -> 1
    [] prim = "pipe" -> 2
    [] prim = "spawn" -> 3
    [] prim \in {"write", "read"} -> 4
    [] prim = "wait" -> 5

\* the spawn entries (0-based) whose fromNode is n, in descriptor order
RECURSIVE OwnSpawns(_, _, _)
OwnSpawns(g, n, k) ==
  IF k >= Len(g.spawns) THEN <<>>
  ELSE (IF g.spawns[k + 1].from = n THEN <<k>> ELSE <<>>) \o OwnSpawns(g, n, k + 1)

C23_StepOrdering ==
  [][\A p \in Procs :
       /\ StepOf(proc'[p].prim) >= StepOf(proc[p].prim)
       /\ proc'[p].pc \in {"transfers", "write", "read", "join"}
            => /\ proc'[p].spawn_calls = OwnSpawns(graph, proc'[p].vm_index, 0)
               /\ proc'[p].spawned_count = Len(proc'[p].spawn_calls)
               /\ \A j \in DOMAIN proc'[p].spawned_vms :
                    /\ proc'[p].spawned_vms[j] \in Procs
                    /\ proc'[proc'[p].spawned_vms[j]].pc # "none"
               /\ proc'[p].waits # <<>> => proc'[p].pc = "join"]_vars

\* the root of the chain has created two pipes, spawned a child, written,
\* read and waited
C23_Witness ==
  /\ graph = GraphChain
  /\ proc[0].pc = "done" /\ proc[0].exit_code = 0
  /\ proc[0].prim = "wait"
  /\ Len(proc[0].adds) = 4
  /\ proc[0].spawn_calls = <<0>>
  /\ proc[0].tx[1] # <<>> /\ proc[0].rx[2] # <<>>
  /\ proc[0].waits = <<1>>


(***************************************************************************)
(* C24: join order.  The identifiers a process has waited on are, at every *)
(* moment, the first ones of the reverse of the identifiers its own spawn  *)
(* calls returned: each is a process it spawned, none occurs twice, and    *)
(* the child spawned last is waited on first.  A process that has returned *)
(* 0 has waited on all of them, each once.                                 *)
(***************************************************************************)
\* s from its last element to its first
Reversed(s) == [k \in 1..Len(s) |-> s[Len(s) + 1 - k]]

C24_JoinOrder ==
  \A p \in Procs :
    LET pr == proc[p] IN
    /\ Len(pr.waits) <= Len(pr.spawned_vms)
    /\ pr.waits = SubSeq(Reversed(pr.spawned_vms), 1, Len(pr.waits))
    /\ \A m, n \in DOMAIN pr.waits : m # n => pr.waits[m] # pr.waits[n]
    /\ \A n \in DOMAIN pr.waits :
         /\ pr.waits[n] \in Procs
         /\ proc[pr.waits[n]].parent = p
    /\ (pr.pc = "done" /\ pr.exit_code = 0)
         => /\ pr.waits = Reversed(pr.spawned_vms)
            /\ Len(pr.spawned_vms) = Len(pr.spawn_calls)

\* the root of the fan has spawned 1 and then 2 and has waited on 2 and then 1
C24_Witness ==
  /\ graph = GraphFan
  /\ proc[0].pc = "done" /\ proc[0].exit_code = 0
  /\ proc[0].spawned_vms = <<1, 2>>
  /\ proc[0].waits = <<2, 1>>


(***************************************************************************)
(* C25: transfer order.  A process calls write only for a write entry      *)
(* whose fromNode it is and read only for one whose toNode (and not whose  *)
(* fromNode) it is.  When it calls write or read for entry k, every entry  *)
(* before k that involves it has been transferred whole and no byte of an  *)
(* entry after k has been written or read by it.  For an entry that does   *)
(* not involve it, it never writes or reads a byte.                        *)
(***************************************************************************)
\* process record pr has done the whole I/O of write entry m
EntryDone(pr, m) ==
  LET w == graph.writes[m] IN
  IF w.from = pr.vm_index THEN pr.tx[m] = MolReader_Write_get_data(w)
  ELSE IF w.to = pr.vm_index THEN pr.rx[m] = MolReader_Write_get_data(w)
  ELSE TRUE

C25_TransferOrder ==
  [][\A p \in Procs :
       /\ \A m \in DOMAIN proc'[p].tx :
            /\ graph.writes[m].from # proc'[p].vm_index => proc'[p].tx[m] = <<>>
            /\ (graph.writes[m].to # proc'[p].vm_index
                \/ graph.writes[m].from = proc'[p].vm_index) => proc'[p].rx[m] = <<>>
       /\ (proc[p].pc \in {"write", "read"} /\ proc'[p] # proc[p])
            => LET k == proc[p].i + 1 IN
               /\ proc'[p].prim = proc[p].pc
               /\ proc[p].pc = "write" => graph.writes[k].from = proc[p].vm_index
               /\ proc[p].pc = "read" => /\ graph.writes[k].to = proc[p].vm_index
                                         /\ graph.writes[k].from # proc[p].vm_index
               /\ \A m \in 1..(k - 1) : EntryDone(proc[p], m)
               /\ \A m \in (k + 1)..Len(graph.writes) :
                    proc'[p].tx[m] = <<>> /\ proc'[p].rx[m] = <<>>]_vars

\* the root of the chain has written the whole first entry and has read a
\* part of the second
C25_Witness ==
  /\ graph = GraphChain
  /\ proc[0].pc = "read" /\ proc[0].i = 1
  /\ proc[0].tx[1] = MolReader_Write_get_data(graph.writes[1])
  /\ proc[0].rx[2] # <<>>
  /\ Len(proc[0].rx[2]) < Len(MolReader_Write_get_data(graph.writes[2]))


(***************************************************************************)
(* C26: own pipes.  In a run of a tree-shaped graph every node index is    *)
(* the index of one process at most, and a process goes over the pipes     *)
(* entries once, from the first to the last.  At an entry of another owner *)
(* it calls nothing and its registry stays as it is.  At an entry it owns  *)
(* it calls the pipe primitive once; if the call succeeds, the registry    *)
(* gets the entry (readPipeIndex, read handle) and then the entry          *)
(* (writePipeIndex, write handle), as far as it has room for them, and a   *)
(* process whose registry has no room exits with ERROR_NO_SPACE_FOR_PIPES. *)
(* A lookup of the index gives the new handle if the registry did not bind *)
(* the index before, and the handle bound first otherwise.                 *)
(***************************************************************************)
\* the registry with the entry (index, id) after its entries
WithEntry(pipes, index, id) ==
  [indices |-> Append(pipes.indices, index),
   ids |-> SubSeq(pipes.ids, 1, pipes.used) \o <<id, Zero64>>,
   used |-> pipes.used + 1]

\* process p takes a step of its loop over the pipes entries
PipesStep(p) == proc[p].pc = "pipes" /\ proc'[p] # proc[p]

\* in this step process p has got a pair of handles from the pipe primitive
PipeCreated(p) == PipesStep(p) /\ nfd' = nfd + 2

C26_OwnPipes ==
  [][(RootRun /\ TreeShaped(graph)) =>
     /\ \A p, q \in Procs :
          (p # q /\ proc'[p].pc \notin {"none", "start"}
                 /\ proc'[q].pc \notin {"none", "start"}
                 /\ (p = 0 \/ proc'[p].looked_up)
                 /\ (q = 0 \/ proc'[q].looked_up))
            => proc'[p].vm_index # proc'[q].vm_index
     /\ \A p \in Procs :
          /\ (proc'[p].pc = "pipes" /\ proc'[p] # proc[p])
               => \/ proc[p].pc = "start" /\ proc'[p].i = 0
                  \/ proc[p].pc = "pipes" /\ proc'[p].i = proc[p].i + 1
          /\ (proc[p].pc # "pipes" /\ proc'[p].pc # "pipes")
               => (proc'[p].adds = proc[p].adds \/ proc[p].pc = "none")
          /\ (PipesStep(p) /\ proc'[p].pc = "spawns") => proc[p].i = Len(graph.pipes)
          /\ (PipesStep(p) /\ proc'[p].pc # "spawns")
               => LET pr == proc[p]
                      pair == graph.pipes[pr.i + 1]
                      h0 == fdpool[nfd + 1]
                      h1 == fdpool[nfd + 2]
                      one == WithEntry(pr.current_pipes, pair.read_fd, h0)
                      two == WithEntry(one, pair.write_fd, h1)
                  IN IF pair.vm # pr.vm_index
                       THEN /\ nfd' = nfd /\ faults' = faults
                            /\ proc'[p] = [pr EXCEPT !.i = @ + 1]
                     ELSE /\ proc'[p].prim = "pipe"
                          /\ \/ /\ nfd' = nfd /\ proc'[p].ret # 0
                                /\ proc'[p].pc = "done"
                                /\ proc'[p].exit_code = ToInt8(proc'[p].ret)
                                /\ proc'[p].current_pipes = pr.current_pipes
                             \/ /\ nfd' = nfd + 2 /\ proc'[p].ret = 0
                                /\ IF pr.current_pipes.used + 2 <= MAX_PIPE_COUNT
                                     THEN /\ proc'[p].pc = "pipes"
                                          /\ proc'[p].current_pipes = two
                                          /\ pipes_find(two, pair.read_fd) =
                                               IF pair.read_fd \in IndicesOf(pr.current_pipes)
                                                 THEN pipes_find(pr.current_pipes, pair.read_fd)
                                                 ELSE [ret |-> 0, id |-> h0]
                                          /\ pipes_find(two, pair.write_fd) =
                                               IF pair.write_fd \in IndicesOf(pr.current_pipes)
                                                 THEN pipes_find(pr.current_pipes, pair.write_fd)
                                               ELSE IF pair.write_fd = pair.read_fd
                                                 THEN [ret |-> 0, id |-> h0]
                                                 ELSE [ret |-> 0, id |-> h1]
                                     ELSE /\ proc'[p].pc = "done"
                                          /\ proc'[p].exit_code = ERROR_NO_SPACE_FOR_PIPES
                                          /\ proc'[p].current_pipes =
                                               IF pr.current_pipes.used < MAX_PIPE_COUNT
                                                 THEN one ELSE pr.current_pipes]_vars

\* the root of the chain has created its two pipes and binds the four indices
C26_Witness ==
  /\ RootRun /\ graph = GraphChain /\ TreeShaped(graph)
  /\ proc[0].pc = "spawns" /\ proc[0].prim = "pipe"
  /\ nfd = 4
  /\ proc[0].current_pipes.used = 4
  /\ pipes_find(proc[0].current_pipes, R1) = [ret |-> 0, id |-> fdpool[1]]
  /\ pipes_find(proc[0].current_pipes, W1) = [ret |-> 0, id |-> fdpool[2]]
  /\ pipes_find(proc[0].current_pipes, R2) = [ret |-> 0, id |-> fdpool[3]]
  /\ pipes_find(proc[0].current_pipes, W2) = [ret |-> 0, id |-> fdpool[4]]

\* C26 as stated: on a tree-shaped graph, once the pipe primitive has
\* returned a pair for an entry, the registry of the owner binds the read
\* index to the read handle and the write index to the write handle
C26_OwnPipesBound ==
  [][(RootRun /\ TreeShaped(graph)) =>
     \A p \in Procs :
       PipeCreated(p)
         => LET pair == graph.pipes[proc[p].i + 1] IN
            /\ pair.vm = proc[p].vm_index
            /\ pipes_find(proc'[p].current_pipes, pair.read_fd) =
                 [ret |-> 0, id |-> fdpool[nfd + 1]]
            /\ pipes_find(proc'[p].current_pipes, pair.write_fd) =
                 [ret |-> 0, id |-> fdpool[nfd + 2]]]_vars


(***************************************************************************)
(* C27: the inherited-handle list.  For every process a spawn call has     *)
(* created, the handle list the spawn primitive was given is the sequence  *)
(* of the handles the parent's registry resolves the entry's visible pipe  *)
(* indices to, in order and of the same length, and the second argument    *)
(* is the encoding of that same sequence.  The handles may be any 64-bit   *)
(* value the pipe primitive yields, 0 included.                            *)
(***************************************************************************)
\* the handles the registry resolves the indices to, in order
ResolvedHandles(pipes, indices) ==
  [n \in 1..Len(indices) |-> pipes_find(pipes, indices[n]).id]

\* the processes a spawn call has created
Spawned == {p \in Created : proc[p].parent \in Procs}

C27_InheritedListIsResolved ==
  \A p \in Spawned :
    LET resolved == ResolvedHandles(proc[proc[p].parent].current_pipes,
                                    MolReader_Spawn_get_pipes(SpawnEntryOf(p)))
    IN /\ proc[p].argv[2] = ArgOf(Flatten(resolved))
       /\ proc[p].inherited_fds = resolved


(***************************************************************************)
(* C28: the receiver compares after the whole payload has been read.  A    *)
(* process that returns ERROR_CORRUPTED_DATA from the read loop of a write *)
(* entry has read len(payload) bytes of that entry at least, whatever the  *)
(* counts the read primitive has returned.                                 *)
(***************************************************************************)
\* process p has returned ERROR_CORRUPTED_DATA from its read loop
ReturnedCorrupted(p) ==
  /\ proc[p].pc = "done" /\ proc[p].prim = "read" /\ proc[p].ret = 0
  /\ proc[p].length # 0
  /\ proc[p].exit_code = ERROR_CORRUPTED_DATA

C28_ComparesWhenFilled ==
  \A p \in Procs :
    ReturnedCorrupted(p)
      => Len(proc[p].rx[proc[p].i + 1])
           >= Len(MolReader_Bytes_raw_bytes(MolReader_Write_get_data(graph.writes[proc[p].i + 1])))


(***************************************************************************)
(* C29: joined on every exit path.  A process that has returned from       *)
(* main(), with 0 or with an error, has waited on every child its spawn    *)
(* calls have created.                                                     *)
(***************************************************************************)
C29_JoinedOnEveryExit ==
  \A p \in Procs :
    proc[p].pc = "done"
      => \A j \in DOMAIN proc[p].spawned_vms :
           proc[p].spawned_vms[j] \in Procs
             => \E n \in DOMAIN proc[p].waits : proc[p].waits[n] = proc[p].spawned_vms[j]


(***************************************************************************)
(* C30: a write whose reader never runs.  In a run in which no primitive   *)
(* fails, a process that is in the write loop of a write entry whose       *)
(* toNode no spawn entry leads to, on a pipe no reached node reads from,   *)
(* stays in that loop for ever: it takes no step, so it returns neither an *)
(* error nor 0; and the root does not terminate.                           *)
(***************************************************************************)
\* the read indices paired with write index x in the pipes table
ReadIndicesOf(g, x) == {g.pipes[k].read_fd : k \in {l \in DOMAIN g.pipes : g.pipes[l].write_fd = x}}

\* no node the spawn entries lead to is the toNode of write entry k, nor of
\* another entry that reads from the pipe entry k writes to
NoReaderEver(g, k) ==
  /\ g.writes[k].from \in ReachedFrom(g, {Root})
  /\ g.writes[k].to \notin ReachedFrom(g, {Root})
  /\ \A m \in DOMAIN g.writes :
       g.writes[m].to \in ReachedFrom(g, {Root})
         => g.writes[m].to_fd \notin ReadIndicesOf(g, g.writes[k].from_fd)

\* process p is in the write loop of an entry that has no reader
BlockedSender(p) ==
  /\ proc[p].pc = "write"
  /\ NoReaderEver(graph, proc[p].i + 1)

C30_SenderBlocksRootForever ==
  [][(RootRun /\ quota = 0) =>
     \A p \in Procs :
       BlockedSender(p) => /\ proc'[p] = proc[p]
                           /\ proc'[0].pc # "done"]_vars


(***************************************************************************)
(* C31: one process instance per node.  In a run on a tree-shaped graph no *)
(* two process instances are started for the same node index, every        *)
(* instance is started for a node the spawn entries lead to from the root  *)
(* and runs with the index it was started for, and when the root has       *)
(* returned 0 every such node has its instance.                            *)
(***************************************************************************)
\* the node a process instance was started for
NodeOfProc(p) == IF p = 0 THEN Root ELSE SpawnEntryOf(p).child

\* the nodes that have a process instance
Realised == {NodeOfProc(p) : p \in Created}

C31_OneInstancePerNode ==
  (RootRun /\ TreeShaped(graph))
  => /\ \A p, q \in Created : p # q => NodeOfProc(p) # NodeOfProc(q)
     /\ \A p \in Created :
          /\ NodeOfProc(p) \in ReachedFrom(graph, {Root})
          /\ proc[p].pc \in {"pipes", "spawns", "transfers", "write", "read", "join"}
               => proc[p].vm_index = NodeOfProc(p)
     /\ (proc[0].pc = "done" /\ proc[0].exit_code = 0)
          => /\ Realised = ReachedFrom(graph, {Root})
             /\ nproc = Cardinality(ReachedFrom(graph, {Root}))

\* the run of the chain has ended with 0 and each of its three nodes has
\* one instance
C31_Witness ==
  /\ RootRun /\ graph = GraphChain /\ TreeShaped(graph)
  /\ proc[0].pc = "done" /\ proc[0].exit_code = 0
  /\ nproc = 3
  /\ Realised = {Root, NodeA, NodeB}

\* C31 as stated: on a tree-shaped graph, at the end of the run of the root
\* every node the spawn entries lead to has exactly one instance
C31_EveryNodeRealised ==
  (RootRun /\ TreeShaped(graph) /\ proc[0].pc = "done")
  => /\ \A p, q \in Created : p # q => NodeOfProc(p) # NodeOfProc(q)
     /\ Realised = ReachedFrom(graph, {Root})


(***************************************************************************)
(* C32: sender, receiver or neither, never both.  For no write entry has a *)
(* process both written and read bytes.  A process is in the write loop of *)
(* an entry only if it is the fromNode of it, and in the read loop only if *)
(* it is the toNode and not the fromNode.  At an entry whose fromNode and  *)
(* toNode are both the node of the process, the process goes to the write  *)
(* loop (or ends with the error of the lookup), and when the write loop    *)
(* has written the whole data segment the process goes on with the next    *)
(* entry, without a read for this one.                                     *)
(***************************************************************************)
\* write entry k names node n as its sender and as its receiver
SelfEntry(k, n) == graph.writes[k].from = n /\ graph.writes[k].to = n

C32_NeverBoth ==
  [][\A p \in Procs :
       LET pr == proc[p]
           nx == proc'[p]
       IN /\ \A k \in DOMAIN nx.tx : ~(nx.tx[k] # <<>> /\ nx.rx[k] # <<>>)
          /\ nx.pc = "write" => graph.writes[nx.i + 1].from = nx.vm_index
          /\ nx.pc = "read" => /\ graph.writes[nx.i + 1].to = nx.vm_index
                               /\ graph.writes[nx.i + 1].from # nx.vm_index
          /\ (pr.pc = "transfers" /\ nx # pr /\ pr.i < Len(graph.writes)
              /\ SelfEntry(pr.i + 1, pr.vm_index))
               => \/ nx.pc = "write" /\ nx.i = pr.i
                  \/ /\ nx.pc = "done"
                     /\ nx.exit_code = ERROR_NOT_FOUND
                     /\ pipes_find(pr.current_pipes, graph.writes[pr.i + 1].from_fd).ret # 0
          /\ (pr.pc = "write" /\ nx.pc \notin {"write", "done"})
               => /\ nx.pc = "transfers" /\ nx.i = pr.i + 1
                  /\ nx.tx[pr.i + 1] = MolReader_Write_get_data(graph.writes[pr.i + 1])
                  /\ nx.rx[pr.i + 1] = <<>>]_vars

\* the root has written the entry that names it as sender and as receiver,
\* has read nothing for it, and has returned 0
C32_Witness ==
  /\ graph = GraphSelf /\ RootRun
  /\ SelfEntry(1, proc[0].vm_index)
  /\ proc[0].pc = "done" /\ proc[0].exit_code = 0
  /\ proc[0].tx[1] = MolReader_Write_get_data(graph.writes[1])
  /\ proc[0].rx[1] = <<>>


(***************************************************************************)
(* C33: the spawn-entry lookup takes the first match.  A process a spawn   *)
(* call has started, whose load of the descriptor does not fail, looks up  *)
(* the first spawn entry in descriptor order that names its node as child, *)
(* whichever entry its parent was working on.  If the number of handles it *)
(* received differs from the number of visible pipes of that first entry   *)
(* it exits with ERROR_ARGV; otherwise it goes on, and its registry binds  *)
(* the i-th visible pipe index of the first entry to the i-th handle it    *)
(* received, which is the handle the parent resolved for the i-th visible  *)
(* pipe of the entry it used.                                              *)
(***************************************************************************)
\* the first spawn entry in descriptor order that names node n as child
FirstEntryFor(n) ==
  graph.spawns[CHOOSE k \in DOMAIN graph.spawns :
                 /\ graph.spawns[k].child = n
                 /\ \A l \in 1..(k - 1) : graph.spawns[l].child # n]

C33_FirstMatch ==
  [][\A p \in Procs :
       (/\ proc[p].pc = "start" /\ proc'[p] # proc[p]
        /\ proc[p].parent # NoPid
        /\ proc'[p].ret = CKB_SUCCESS)
       => LET used == SpawnEntryOf(p)
              first == FirstEntryFor(used.child)
              received == ResolvedHandles(proc[proc[p].parent].current_pipes,
                                          MolReader_Spawn_get_pipes(used))
              mine == proc'[p].current_pipes
          IN /\ proc'[p].vm_index = used.child
             /\ IF Len(received) # Len(first.fds)
                  THEN /\ proc'[p].pc = "done"
                       /\ proc'[p].exit_code = ERROR_ARGV
                       /\ mine = pipes_init
                  ELSE /\ proc'[p].pc = "pipes"
                       /\ mine.used = Len(first.fds)
                       /\ \A i \in 1..Len(first.fds) :
                            /\ mine.indices[i] = first.fds[i]
                            /\ mine.ids[i] = received[i]]_vars

\* a child the root started for the second entry that names its node, with
\* the handle of W1, runs with that handle bound to R1, the visible pipe of
\* the first entry
C33_Witness ==
  \E p \in Procs :
    /\ graph = GraphTwiceOnePipe
    /\ proc[p].parent = 0
    /\ SpawnEntryOf(p) = graph.spawns[2]
    /\ FirstEntryFor(NodeA) = graph.spawns[1]
    /\ proc[p].pc \notin {"none", "start"}
    /\ proc[p].vm_index = NodeA
    /\ proc[p].current_pipes.used = 1
    /\ proc[p].current_pipes.indices = <<R1>>
    /\ proc[p].current_pipes.ids[1] = pipes_find(proc[0].current_pipes, W1).id
    /\ pipes_find(proc[0].current_pipes, W1).id # pipes_find(proc[0].current_pipes, R1).id



(***************************************************************************)
(* C34: designated endpoints.  Every write call is issued by a process     *)
(* whose node is the fromNode of a write entry, on the handle its registry *)
(* binds to the fromPipe of that entry, and every read call by a process   *)
(* whose node is the toNode of an entry, on the handle bound to its        *)
(* toPipe.  A process that holds a pipe index without being designated for *)
(* it calls no write and no read on the handle of it.  In a run of the     *)
(* root on a tree-shaped graph in which each pipe index is used by a       *)
(* single node, no handle is used for I/O by two process instances.        *)
(***************************************************************************)
\* the handle the registry of process p binds to pipe index x
HandleOf(p, x) == pipes_find(proc[p].current_pipes, x).id

\* process p resolves index x, and a write entry names the node of p as its
\* fromNode with fromPipe x, or as its toNode with toPipe x
DesignatedWriter(p, x) ==
  /\ pipes_find(proc[p].current_pipes, x).ret = 0
  /\ \E k \in DOMAIN graph.writes :
       graph.writes[k].from = proc[p].vm_index /\ graph.writes[k].from_fd = x
DesignatedReader(p, x) ==
  /\ pipes_find(proc[p].current_pipes, x).ret = 0
  /\ \E k \in DOMAIN graph.writes :
       graph.writes[k].to = proc[p].vm_index /\ graph.writes[k].to_fd = x

\* the pipe indices the write entries name
TransferIndices(g) ==
  {g.writes[k].from_fd : k \in DOMAIN g.writes} \cup {g.writes[k].to_fd : k \in DOMAIN g.writes}

\* the nodes that use pipe index x, as senders on it or as receivers on it
UsersOfIndex(g, x) ==
  {g.writes[k].from : k \in {l \in DOMAIN g.writes : g.writes[l].from_fd = x}}
  \cup {g.writes[k].to : k \in {l \in DOMAIN g.writes : g.writes[l].to_fd = x}}

\* each pipe index is used by a single fromNode or a single toNode
SingleUse(g) == \A x \in TransferIndices(g) : Cardinality(UsersOfIndex(g, x)) <= 1

\* process p is in a write or read call on handle h, has ended in one, or
\* has transferred bytes on h
UsedForIO(p, h) ==
  \/ proc[p].pc \in {"write", "read"} /\ proc[p].pipe_id = h
  \/ proc[p].pc = "done" /\ proc[p].prim \in {"write", "read"} /\ proc[p].pipe_id = h
  \/ \E k \in DOMAIN graph.writes :
       \/ k \in DOMAIN proc[p].tx /\ proc[p].tx[k] # <<>>
            /\ HandleOf(p, graph.writes[k].from_fd) = h
       \/ k \in DOMAIN proc[p].rx /\ proc[p].rx[k] # <<>>
            /\ HandleOf(p, graph.writes[k].to_fd) = h

\* the handles of the pool
Handles == {fdpool[k] : k \in DOMAIN fdpool}

\* a write call is one of a designated sender, a read call one of a
\* designated receiver
C34_CallsByDesignated ==
  \A p \in Created :
    /\ (proc[p].pc = "write" \/ (proc[p].pc = "done" /\ proc[p].prim = "write"))
         => \E x \in TransferIndices(graph) :
              DesignatedWriter(p, x) /\ HandleOf(p, x) = proc[p].pipe_id
    /\ (proc[p].pc = "read" \/ (proc[p].pc = "done" /\ proc[p].prim = "read"))
         => \E x \in TransferIndices(graph) :
              DesignatedReader(p, x) /\ HandleOf(p, x) = proc[p].pipe_id

\* a process that holds the handle of an index it is not designated for
\* does no I/O on it
C34_HoldersDoNoIO ==
  \A p \in Created : \A x \in IndicesOf(proc[p].current_pipes) :
    (~ \E y \in TransferIndices(graph) :
         /\ DesignatedWriter(p, y) \/ DesignatedReader(p, y)
         /\ HandleOf(p, y) = HandleOf(p, x))
      => ~ UsedForIO(p, HandleOf(p, x))

C34_DesignatedEndpoints ==
  /\ C34_CallsByDesignated
  /\ C34_HoldersDoNoIO
  /\ (RootRun /\ TreeShaped(graph) /\ SingleUse(graph))
       => \A p, q \in Created : \A h \in Handles :
            (UsedForIO(p, h) /\ UsedForIO(q, h)) => p = q

\* the run of the chain has ended with 0: the root has written on the first
\* pipe and read on the second, the grandchild the other way round, and the
\* child in between, which was passed two handles on, has done no I/O
C34_Witness ==
  /\ RootRun /\ graph = GraphChain /\ TreeShaped(graph) /\ SingleUse(graph)
  /\ proc[0].pc = "done" /\ proc[0].exit_code = 0
  /\ \E a, b \in Created :
       /\ proc[a].vm_index = NodeA /\ proc[b].vm_index = NodeB
       /\ proc[a].current_pipes.used = 2
       /\ \A h \in Handles : ~ UsedForIO(a, h)
       /\ UsedForIO(0, HandleOf(0, W1)) /\ UsedForIO(b, HandleOf(b, R1))
       /\ UsedForIO(b, HandleOf(b, W2)) /\ UsedForIO(0, HandleOf(0, R2))
       /\ HandleOf(a, W2) = HandleOf(b, W2) /\ HandleOf(a, R1) = HandleOf(b, R1)

\* C34 as stated: in a graph in which each pipe index is used by a single
\* node, no handle is used for I/O by two process instances
C34_SingleUseOnly ==
  (RootRun /\ SingleUse(graph))
    => \A p, q \in Created : \A h \in Handles :
         (UsedForIO(p, h) /\ UsedForIO(q, h)) => p = q



(***************************************************************************)
(* C35: the string form and the buffer form of decoding agree.  On a byte  *)
(* string s without a 0x00 byte, ee_decode_char_string_in_place on s       *)
(* followed by a NUL and ee_decode on s with a capacity of at least        *)
(* len(s) return the same status and have written the same decoded bytes,  *)
(* and when they return 0 they report the same length.  For every x the    *)
(* in-place decode of the whole encoding of x followed by a NUL returns 0  *)
(* with length len(x) and leaves x in the first len(x) bytes.              *)
(***************************************************************************)
C35_FormsAgree ==
  /\ (codec.op = "parsed" /\ 0 \notin Range(codec.src) /\ codec.ddl >= Len(codec.src))
       => /\ codec.str = codec.src
          /\ codec.inplace.ret = codec.dec.ret
          /\ codec.inplace.buf = codec.dec.dst
          /\ codec.dec.ret = 0 => codec.inplace.length = codec.dec.dst_length
  /\ (codec.op = "in_place" /\ codec.enc.src_length = Len(codec.src))
       => /\ codec.enc.ret = 0
          /\ codec.str = SubSeq(codec.enc.dst, 1, codec.enc.dst_length)
          /\ codec.inplace.ret = 0
          /\ codec.inplace.length = Len(codec.src)
          /\ codec.inplace.buf = codec.src

\* both forms have decoded <<1, 0xFE, 0xFF>> to <<1, 0>> with status 0
C35_Witness ==
  /\ codec.op = "parsed"
  /\ codec.src = <<1, 254, 255>> /\ codec.str = codec.src
  /\ codec.ddl = Len(codec.src)
  /\ codec.inplace = [ret |-> 0, buf |-> <<1, 0>>, length |-> 2]
  /\ codec.dec.ret = 0 /\ codec.dec.dst = <<1, 0>> /\ codec.dec.dst_length = 2

\* both forms have failed on <<1, 0xFE>> after the byte 1
C35_BothFail ==
  /\ codec.op = "parsed"
  /\ codec.src = <<1, 254>> /\ codec.ddl >= 2
  /\ codec.inplace.ret = ESCAPE_ERROR_ENCODING /\ codec.inplace.buf = <<1>>
  /\ codec.dec.ret = ESCAPE_ERROR_ENCODING /\ codec.dec.dst = <<1>>

\* the in-place decode of the encoding of <<0, 254, 255>> has returned 0 and
\* left the three bytes
C35_RoundTrip ==
  /\ codec.op = "in_place"
  /\ codec.src = <<0, 254, 255>>
  /\ codec.enc.src_length = 3
  /\ codec.str = <<254, 255, 254, 253, 255>>
  /\ codec.inplace = [ret |-> 0, buf |-> <<0, 254, 255>>, length |-> 3]


(***************************************************************************)
(* C36: validation of the graph buffer in strict mode.  The verification   *)
(* as main() calls it returns MOL_OK only for a buffer whose leading total *)
(* size is the length of the buffer, whose header holds exactly 3 offsets, *)
(* in ascending order and none beyond the buffer, and whose three fields   *)
(* are vectors of which every element passes the same checks with its own  *)
(* field count (3 for a spawn, 3 for a pipe, 5 for a write), with 8 bytes  *)
(* for every index and a counted vector for the pipe list and the payload. *)
(* A buffer that breaks one of these at any level is rejected.             *)
(***************************************************************************)
\* the bytes from a up to e of buf are a table of exactly n fields: the
\* total size is e - a, n offsets follow, ascending and within the table
WellFormedTable(buf, pad, a, e, n) ==
  /\ e - a >= MOL_NUM_T_SIZE * (n + 1)
  /\ mol_unpack_number(buf, pad, a) = e - a
  /\ mol_unpack_number(buf, pad, a + MOL_NUM_T_SIZE) = MOL_NUM_T_SIZE * (n + 1)
  /\ \A i \in 1..(n - 1) :
       mol_unpack_number(buf, pad, a + MOL_NUM_T_SIZE * i)
         <= mol_unpack_number(buf, pad, a + MOL_NUM_T_SIZE * (i + 1))
  /\ mol_unpack_number(buf, pad, a + MOL_NUM_T_SIZE * n) <= e - a

\* where field i of n of the table from a up to e begins and ends
FieldFrom(buf, pad, a, i) == a + mol_unpack_number(buf, pad, a + MOL_NUM_T_SIZE * i)
FieldTo(buf, pad, a, e, n, i) ==
  IF i = n THEN e ELSE a + mol_unpack_number(buf, pad, a + MOL_NUM_T_SIZE * (i + 1))

\* the bytes from a up to e are a count and that many items of item bytes
WellFormedFixvec(buf, pad, a, e, item) ==
  /\ e - a >= MOL_NUM_T_SIZE
  /\ mol_unpack_number(buf, pad, a) <= e - a
  /\ e - a = MOL_NUM_T_SIZE + item * mol_unpack_number(buf, pad, a)

\* the bytes from a up to e are a spawn, a pipe or a write entry
WellFormedItem(kind, buf, pad, a, e) ==
  LET n == IF kind = "Write" THEN 5 ELSE 3
      len(i) == FieldTo(buf, pad, a, e, n, i) - FieldFrom(buf, pad, a, i)
  IN /\ WellFormedTable(buf, pad, a, e, n)
     /\ \A i \in 1..(n - 1) : len(i) = 8
     /\ IF kind = "Pipe" THEN len(n) = 8
        ELSE WellFormedFixvec(buf, pad, FieldFrom(buf, pad, a, n), e,
                              IF kind = "Spawn" THEN 8 ELSE 1)

\* the bytes from a up to e are a vector of such entries
WellFormedVector(kind, buf, pad, a, e) ==
  /\ e - a >= MOL_NUM_T_SIZE
  /\ mol_unpack_number(buf, pad, a) = e - a
  /\ e - a > MOL_NUM_T_SIZE
       => LET first == mol_unpack_number(buf, pad, a + MOL_NUM_T_SIZE)
              n == (first \div 4) - 1
          IN /\ e - a >= MOL_NUM_T_SIZE * 2
             /\ first % 4 = 0 /\ first >= MOL_NUM_T_SIZE * 2
             /\ e - a >= MOL_NUM_T_SIZE * (n + 1)
             /\ \A i \in 1..(n - 1) :
                  mol_unpack_number(buf, pad, a + MOL_NUM_T_SIZE * i)
                    <= mol_unpack_number(buf, pad, a + MOL_NUM_T_SIZE * (i + 1))
             /\ mol_unpack_number(buf, pad, a + MOL_NUM_T_SIZE * n) <= e - a
             /\ \A i \in 1..n :
                  WellFormedItem(kind, buf, pad, FieldFrom(buf, pad, a, i),
                                 FieldTo(buf, pad, a, e, n, i))

WellFormedData(buf, pad) ==
  /\ WellFormedTable(buf, pad, 0, Len(buf), 3)
  /\ WellFormedVector("Spawn", buf, pad, FieldFrom(buf, pad, 0, 1),
                      FieldTo(buf, pad, 0, Len(buf), 3, 1))
  /\ WellFormedVector("Pipe", buf, pad, FieldFrom(buf, pad, 0, 2),
                      FieldTo(buf, pad, 0, Len(buf), 3, 2))
  /\ WellFormedVector("Write", buf, pad, FieldFrom(buf, pad, 0, 3),
                      FieldTo(buf, pad, 0, Len(buf), 3, 3))

C36_StrictValidation ==
  mol.op = "verified"
    => /\ mol.errno \in {"MOL_OK", "MOL_ERR_HEADER", "MOL_ERR_TOTAL_SIZE",
                         "MOL_ERR_OFFSET", "MOL_ERR_FIELD_COUNT", "MOL_ERR_DATA"}
       /\ mol.errno = "MOL_OK" => WellFormedData(mol.buf, mol.pad)

\* the buffer a builder makes of the chain, with two entries in each of its
\* vectors, has been accepted
C36_Witness ==
  /\ mol.op = "verified"
  /\ graph = GraphChain /\ mol.buf = DataBytes(graph)
  /\ mol.errno = "MOL_OK"
  /\ WellFormedData(mol.buf, mol.pad)

\* a buffer whose own header is in order and whose vector of writes holds an
\* entry that is not has been rejected
C36_NestedRejected ==
  /\ mol.op = "verified"
  /\ graph = GraphChain
  /\ WellFormedTable(mol.buf, mol.pad, 0, Len(mol.buf), 3)
  /\ WellFormedVector("Spawn", mol.buf, mol.pad, FieldFrom(mol.buf, mol.pad, 0, 1),
                      FieldTo(mol.buf, mol.pad, 0, Len(mol.buf), 3, 1))
  /\ WellFormedVector("Pipe", mol.buf, mol.pad, FieldFrom(mol.buf, mol.pad, 0, 2),
                      FieldTo(mol.buf, mol.pad, 0, Len(mol.buf), 3, 2))
  /\ mol.errno = "MOL_ERR_DATA"


\* ------------------------------------------------------------------
\* spawn_utils.h: read_exact and write_exact, run on their own
\* ------------------------------------------------------------------

\* the largest length a run of read_exact or write_exact is called with
ExactMaxLength == 11

\* what one call of ckb_read or ckb_write with the request n reports:
\* a count from 0 to n with no error, the closed peer, or another error
ExactOutcomes(n) ==
  {[err |-> CKB_SUCCESS, n |-> k] : k \in 0..n}
    \cup {[err |-> CKB_OTHER_END_CLOSED, n |-> 0], [err |-> CKB_INVALID_FD, n |-> 0]}

\* the locals of read_exact or write_exact at the head of its loop, with
\* *actual_length as the caller left it
exact_call(call, length, actual_length) ==
  [call |-> call, pc |-> "loop", length |-> length, remaining_length |-> length,
   actual_length |-> actual_length, err |-> 0, reported |-> 0]

\* one pass of the loop of read_exact or write_exact, out being what the
\* call of ckb_read or ckb_write reported
exact_iteration(st, out) ==
  IF out.err = CKB_OTHER_END_CLOSED
    THEN [st EXCEPT !.err = 0, !.pc = "returned"]
  ELSE IF out.err # 0
    THEN [st EXCEPT !.err = out.err, !.pc = "returned"]
  ELSE LET remaining_length == st.remaining_length - out.n
       IN  [st EXCEPT !.remaining_length = remaining_length,
                      !.actual_length = st.length - remaining_length,
                      !.reported = st.reported + out.n,
                      !.pc = IF remaining_length = 0 THEN "returned" ELSE "loop"]

\* the variables of the run of spawn_dag.c at rest
MainOff ==
  /\ graph = GraphHello
  /\ fdpool = PoolCkb
  /\ quota = 0
  /\ faults = 0
  /\ nproc = 0
  /\ nfd = 0
  /\ inflight = [k \in 1..(Len(fdpool) \div 2) |-> <<>>]
  /\ proc = [p \in Procs |-> NoProc]
  /\ data_buffer = Serialized(graph)

InitExact ==
  /\ MainOff
  /\ codec = CodecOff
  /\ mol = MolOff
  /\ \E call \in {"read_exact", "write_exact"}, length \in 1..ExactMaxLength :
       cases = [op |-> "exact", ex |-> exact_call(call, length, 0)]

\* read_exact: one call of ckb_read and the rest of the pass of the loop
Exact_read ==
  /\ cases.op = "exact"
  /\ cases.ex.call = "read_exact"
  /\ cases.ex.pc = "loop"
  /\ \E out \in ExactOutcomes(cases.ex.remaining_length) :
       cases' = [cases EXCEPT !.ex = exact_iteration(cases.ex, out)]
  /\ UNCHANGED <<mainvars, codec, mol>>

\* write_exact: one call of ckb_write and the rest of the pass of the loop
Exact_write ==
  /\ cases.op = "exact"
  /\ cases.ex.call = "write_exact"
  /\ cases.ex.pc = "loop"
  /\ \E out \in ExactOutcomes(cases.ex.remaining_length) :
       cases' = [cases EXCEPT !.ex = exact_iteration(cases.ex, out)]
  /\ UNCHANGED <<mainvars, codec, mol>>

NextExact == Exact_read \/ Exact_write

SpecExact == InitExact /\ [][NextExact]_vars


\* ------------------------------------------------------------------
\* spawn_cases.c, case 1: parent_simple_read_write and
\* child_simple_read_write over the two pipes of full_spawn
\* ------------------------------------------------------------------

\* the number of bytes a pipe holds between a write and the reads that
\* take them
PipeCapacity == 3

CKB_STDIN == 0
CKB_STDOUT == 1

\* size bytes of the value b
Block(size, b) == [j \in 1..size |-> b]

\* the two pipes of create_std_pipes as ckb_pipe yields them: the read
\* handle first, the write handle second
CasePipes == <<2, 3, 4, 5>>

\* the pipe (named by its read handle) a handle is an end of
PipeOfHandle(fd) == IF fd % 2 = 0 THEN fd ELSE fd - 1

\* create_std_pipes handing the child the parent's ends
create_std_pipes_crossed ==
  LET to_child  == <<CasePipes[1], CasePipes[2]>>
      to_parent == <<CasePipes[3], CasePipes[4]>>
  IN  [inherited_fds |-> <<to_parent[1], to_child[2], 0>>,
       fds |-> [k \in {CKB_STDIN, CKB_STDOUT} |->
                  IF k = CKB_STDIN THEN to_parent[1] ELSE to_child[2]]]

\* create_std_pipes(fds, inherited_fds): fds and inherited_fds as stored
\* (index 0 of the C arrays is index 1 here)
create_std_pipes ==
  LET to_child  == <<CasePipes[1], CasePipes[2]>>
      to_parent == <<CasePipes[3], CasePipes[4]>>
  IN  [inherited_fds |-> <<to_child[1], to_parent[2], 0>>,
       fds |-> [k \in {CKB_STDIN, CKB_STDOUT} |->
                  IF k = CKB_STDIN THEN to_parent[1] ELSE to_child[2]]]

\* the handles a child finds with ckb_inherited_file_descriptors: the
\* list the spawn was given, up to its zero terminator
RECURSIVE InheritedUpToZero(_)
InheritedUpToZero(ids) ==
  IF ids = <<>> \/ Head(ids) = 0 THEN <<>>
  ELSE <<Head(ids)>> \o InheritedUpToZero(Tail(ids))

\* ckb_write(fd, bytes) on the pipes ps: the closed peer, or a count of
\* at least one byte that the pipe has room for (none: the call waits)
ckb_write_case(ps, fd, bytes) ==
  LET q == ps[PipeOfHandle(fd)]
  IN  IF ~q.r_open
        THEN {[err |-> CKB_OTHER_END_CLOSED, n |-> 0, pipes |-> ps]}
        ELSE {[err |-> CKB_SUCCESS, n |-> k,
               pipes |-> [ps EXCEPT ![PipeOfHandle(fd)].buf = q.buf \o SubSeq(bytes, 1, k)]] :
                k \in 1..Min(Len(bytes), PipeCapacity - Len(q.buf))}

\* ckb_read(fd, n) on the pipes ps: a count of at least one byte the pipe
\* holds, the closed peer when it holds none and the write end is closed
\* (none: the call waits)
ckb_read_case(ps, fd, n) ==
  LET q == ps[PipeOfHandle(fd)]
  IN  IF q.buf = <<>>
        THEN IF ~q.w_open
               THEN {[err |-> CKB_OTHER_END_CLOSED, n |-> 0, data |-> <<>>, pipes |-> ps]}
               ELSE {}
        ELSE {[err |-> CKB_SUCCESS, n |-> k, data |-> SubSeq(q.buf, 1, k),
               pipes |-> [ps EXCEPT ![PipeOfHandle(fd)].buf = SubSeq(q.buf, k + 1, Len(q.buf))]] :
                k \in 1..Min(n, Len(q.buf))}

\* the handles of a process that exits are closed
close_handles(ps, fds) ==
  [r \in DOMAIN ps |->
     [ps[r] EXCEPT !.r_open = ps[r].r_open /\ r \notin fds,
                   !.w_open = ps[r].w_open /\ (r + 1) \notin fds]]

\* a process of case 1 at the head of a block loop
case_loop(pc, i, call, size, fds) ==
  [pc |-> pc, i |-> i, ex |-> exact_call(call, size, 0),
   block |-> Block(size, IF call = "read_exact" THEN 0 ELSE 255),
   err |-> 0, fds |-> fds]

\* a process of case 1 that has returned err from its function
case_exit(p, err) == [p EXCEPT !.pc = "exit", !.err = err]

\* the checks after write_exact or read_exact has returned (p.ex) in the
\* i-th pass of a loop of count blocks, bad being the code of a wrong
\* byte; after the last pass the process goes on as then
case_checks(p, count, bad, then) ==
  IF p.ex.err # 0 THEN case_exit(p, p.ex.err)
  ELSE IF p.ex.actual_length # p.ex.length THEN case_exit(p, -2)
  ELSE IF p.ex.call = "read_exact" /\ \E j \in 1..Len(p.block) : p.block[j] # 255
    THEN case_exit(p, bad)
  ELSE IF p.i + 1 < count
    THEN case_loop(p.pc, p.i + 1, p.ex.call, p.ex.length, p.fds)
  ELSE then

\* one call of ckb_write of write_exact by p, reporting out, and what
\* follows it up to the next call
case_write_pass(p, out, count, then) ==
  LET q == [p EXCEPT !.ex = exact_iteration(p.ex, out)]
  IN  IF q.ex.pc = "returned" THEN case_checks(q, count, -2, then) ELSE q

\* one call of ckb_read of read_exact by p, reporting out, and what
\* follows it up to the next call
case_read_pass(p, out, count, bad, then) ==
  LET at == p.ex.length - p.ex.remaining_length
      q  == [p EXCEPT !.ex = exact_iteration(p.ex, out),
                      !.block = [j \in 1..Len(p.block) |->
                                   IF out.err = 0 /\ j > at /\ j <= at + out.n
                                     THEN out.data[j - at] ELSE p.block[j]]]
  IN  IF q.ex.pc = "returned" THEN case_checks(q, count, bad, then) ELSE q

\* the pipes after a step that left the process as q: closed when it exited
case_pipes(ps, q) ==
  IF q.pc = "exit" THEN close_handles(ps, {q.fds[k] : k \in DOMAIN q.fds}) ELSE ps

NoCaseProc == [pc |-> "none", i |-> 0, ex |-> exact_call("none", 0, 0),
               block |-> <<>>, err |-> 0, fds |-> <<>>]

InitCase1 ==
  /\ MainOff
  /\ codec = CodecOff
  /\ mol = MolOff
  /\ cases = [op |-> "case1",
              parent |-> [NoCaseProc EXCEPT !.pc = "spawn"],
              child |-> NoCaseProc,
              pipes |-> <<>>,
              exit_code |-> 0]

\* parent_simple_read_write up to its first write: full_spawn creates the
\* two pipes and starts the child, which gets its inherited handles
Case1_spawn ==
  /\ cases.op = "case1"
  /\ cases.parent.pc = "spawn"
  /\ LET std == create_std_pipes
         inherited_fds == InheritedUpToZero(std.inherited_fds)
     IN  cases' = [cases EXCEPT
           !.pipes = [r \in {CasePipes[1], CasePipes[3]} |->
                        [buf |-> <<>>, r_open |-> TRUE, w_open |-> TRUE]],
           !.parent = case_loop("write", 0, "write_exact", 11, std.fds),
           !.child = case_loop("read", 0, "read_exact", 7,
                               [k \in {CKB_STDIN, CKB_STDOUT} |-> inherited_fds[k + 1]])]
  /\ UNCHANGED <<mainvars, codec, mol>>

\* parent_simple_read_write, the write loop: 7 blocks of 11 bytes
Case1_parent_write ==
  /\ cases.op = "case1"
  /\ cases.parent.pc = "write"
  /\ LET p == cases.parent
         bytes == SubSeq(p.block, p.ex.length - p.ex.remaining_length + 1, p.ex.length)
     IN  \E out \in ckb_write_case(cases.pipes, p.fds[CKB_STDOUT], bytes) :
           LET q == case_write_pass(p, out, 7,
                      case_loop("read", 0, "read_exact", 11, p.fds))
           IN  cases' = [cases EXCEPT !.parent = q,
                                      !.pipes = case_pipes(out.pipes, q)]
  /\ UNCHANGED <<mainvars, codec, mol>>

\* parent_simple_read_write, the read loop: 7 blocks of 11 bytes; after
\* it parent_entry goes on to ckb_wait
Case1_parent_read ==
  /\ cases.op = "case1"
  /\ cases.parent.pc = "read"
  /\ LET p == cases.parent
     IN  \E out \in ckb_read_case(cases.pipes, p.fds[CKB_STDIN], p.ex.remaining_length) :
           LET q == case_read_pass(p, out, 7, -2, [p EXCEPT !.pc = "wait", !.i = 7])
           IN  cases' = [cases EXCEPT !.parent = q,
                                      !.pipes = case_pipes(out.pipes, q)]
  /\ UNCHANGED <<mainvars, codec, mol>>

\* child_simple_read_write, the read loop: 11 blocks of 7 bytes
Case1_child_read ==
  /\ cases.op = "case1"
  /\ cases.child.pc = "read"
  /\ LET p == cases.child
     IN  \E out \in ckb_read_case(cases.pipes, p.fds[CKB_STDIN], p.ex.remaining_length) :
           LET q == case_read_pass(p, out, 11, -3,
                      case_loop("write", 0, "write_exact", 11, p.fds))
           IN  cases' = [cases EXCEPT !.child = q,
                                      !.pipes = case_pipes(out.pipes, q)]
  /\ UNCHANGED <<mainvars, codec, mol>>

\* child_simple_read_write, the write loop: 7 blocks of 11 bytes; after
\* it the child returns 0
Case1_child_write ==
  /\ cases.op = "case1"
  /\ cases.child.pc = "write"
  /\ LET p == cases.child
         bytes == SubSeq(p.block, p.ex.length - p.ex.remaining_length + 1, p.ex.length)
     IN  \E out \in ckb_write_case(cases.pipes, p.fds[CKB_STDOUT], bytes) :
           LET q == case_write_pass(p, out, 7, case_exit([p EXCEPT !.i = 7], 0))
           IN  cases' = [cases EXCEPT !.child = q,
                                      !.pipes = case_pipes(out.pipes, q)]
  /\ UNCHANGED <<mainvars, codec, mol>>

\* parent_entry after case 1: ckb_wait(pid, &exit_code) returns once the
\* child has exited; CHECK(exit_code), and the parent returns err
Case1_parent_wait ==
  /\ cases.op = "case1"
  /\ cases.parent.pc = "wait"
  /\ cases.child.pc = "exit"
  /\ LET exit_code == ToInt8(cases.child.err)
         q == case_exit(cases.parent, exit_code)
     IN  cases' = [cases EXCEPT !.exit_code = exit_code,
                                !.parent = q,
                                !.pipes = case_pipes(cases.pipes, q)]
  /\ UNCHANGED <<mainvars, codec, mol>>

Case1_parent ==
  Case1_spawn \/ Case1_parent_write \/ Case1_parent_read \/ Case1_parent_wait

Case1_child == Case1_child_read \/ Case1_child_write

NextCase1 ==
  \/ Case1_spawn
  \/ Case1_parent_write
  \/ Case1_parent_read
  \/ Case1_parent_wait
  \/ Case1_child_read
  \/ Case1_child_write

SpecCase1 == InitCase1 /\ [][NextCase1]_vars

\* every process that can run is run again: the scheduler of the VMs
\* leaves no runnable process waiting forever
FairCase1 == SpecCase1 /\ WF_vars(Case1_parent) /\ WF_vars(Case1_child)

\* C37 (as stated): read_exact and write_exact transfer exactly length
\* bytes: whenever either has returned 0, *actual_length equals length; and
\* in every pass of the loop *actual_length is the sum of the counts the
\* calls of ckb_read or ckb_write have reported so far and is at most length.
C37_ExactOnSuccess ==
  cases.op = "exact" =>
    /\ (cases.ex.pc = "returned" /\ cases.ex.err = 0) =>
         cases.ex.actual_length = cases.ex.length
    /\ cases.ex.actual_length = cases.ex.reported
    /\ cases.ex.actual_length <= cases.ex.length

\* the second half of C37 on its own: the running sum and its limit
C37_RunningSum ==
  cases.op = "exact" =>
    /\ cases.ex.actual_length = cases.ex.reported
    /\ cases.ex.actual_length <= cases.ex.length


Case1Procs == {"parent", "child"}

\* both processes of case 1 have returned 0 and the wait gave status 0
Case1Done ==
  /\ cases.op = "case1"
  /\ cases.parent.pc = "exit" /\ cases.parent.err = 0
  /\ cases.child.pc = "exit" /\ cases.child.err = 0
  /\ cases.exit_code = 0

\* no process of case 1 has failed a check: no read_exact or write_exact
\* has returned short or with an error, and no byte read differs from 0xFF
Case1NoCheckFailed ==
  cases.op = "case1" =>
    /\ cases.parent.err = 0 /\ cases.child.err = 0 /\ cases.exit_code = 0
    /\ \A who \in Case1Procs :
         LET p == cases[who]
         IN  (p.pc = "read") =>
               \A j \in 1..(p.ex.length - p.ex.remaining_length) : p.block[j] = 255

\* a step that ends a pass of a read loop of case 1 has taken the rest of
\* the block from the pipe, and these bytes are 0xFF
Case1BlockFilled ==
  \A who \in Case1Procs :
    (cases.op = "case1" /\ cases[who].pc = "read" /\ cases'[who].i # cases[who].i) =>
      LET r == PipeOfHandle(cases[who].fds[CKB_STDIN])
          n == cases[who].ex.remaining_length
      IN  /\ Len(cases.pipes[r].buf) >= n
          /\ cases'.pipes[r].buf = SubSeq(cases.pipes[r].buf, n + 1, Len(cases.pipes[r].buf))
          /\ \A j \in 1..n : cases.pipes[r].buf[j] = 255

\* C38: in case 1, under fair scheduling and for every way the pipes
\* split the transfers into short reads and writes, every block read is
\* filled and holds only 0xFF, and both processes end with status 0, the
\* parent's wait having given the exit status 0.
C38_Case1Terminates ==
  []Case1NoCheckFailed /\ [][Case1BlockFilled]_vars /\ <>[]Case1Done

\* C38 witness: the run has ended with both statuses 0 after the 77 bytes
\* went each way, all pipes drained
C38_Witness ==
  /\ Case1Done
  /\ \A r \in DOMAIN cases.pipes : cases.pipes[r].buf = <<>>
  /\ cases.parent.i = 7 /\ cases.child.i = 7


\* ------------------------------------------------------------------
\* C39: the zero entry of the registry
\* ------------------------------------------------------------------

\* the slots of ids (uint64_t ids[MAX_PIPE_COUNT + 1])
IdsSlots == MAX_PIPE_COUNT + 1

\* the registry holds used handles, the zero entry directly after them, and
\* the slot of the zero entry is one of the array (ids[used] in the code is
\* ids[used + 1] here)
Terminated(pipes) ==
  /\ pipes.used <= MAX_PIPE_COUNT
  /\ Len(pipes.ids) = pipes.used + 1
  /\ pipes.used + 1 <= IdsSlots
  /\ pipes.ids[pipes.used + 1] = Zero64

\* the registry of the handles passed to a child that process p builds in
\* the pass of its spawn loop it is about to make, as far as the pass
\* builds it
PassedRegistries(p) ==
  LET pr == proc[p]
  IN  IF /\ pr.pc = "spawns"
         /\ pr.i < Len(graph.spawns)
         /\ graph.spawns[pr.i + 1].from = pr.vm_index
        THEN {pass_pipes_loop(pr.current_pipes, pipes_init,
                              MolReader_Spawn_get_pipes(graph.spawns[pr.i + 1]), 0).pipes}
        ELSE {}

\* the registries of process p
RegistriesOf(p) == {proc[p].current_pipes, proc[p].inherited} \cup PassedRegistries(p)

\* C39: after pipes_init and after every call of pipes_add, successful or
\* failed, ids[used] is 0 and used is at most MAX_PIPE_COUNT: every
\* registry of every process is terminated by a zero entry directly after
\* its last handle, inside the array; a successful Add puts the handle in
\* the slot of the old zero entry and the zero entry one slot further, a
\* failed Add leaves the registry as it was.
C39_SentinelInvariant ==
  /\ Terminated(pipes_init)
  /\ \A p \in Procs : \A r \in RegistriesOf(p) :
       /\ Terminated(r)
       /\ \A x \in PipeIndexes, id \in Range(fdpool) :
            LET added == pipes_add(r, x, id)
            IN  /\ Terminated(added.pipes)
                /\ added.ret = CKB_SUCCESS =>
                     /\ r.used < MAX_PIPE_COUNT
                     /\ added.pipes.used = r.used + 1
                     /\ added.pipes.ids[r.used + 1] = id
                     /\ SubSeq(added.pipes.ids, 1, r.used) = SubSeq(r.ids, 1, r.used)
                /\ added.ret # CKB_SUCCESS =>
                     /\ r.used = MAX_PIPE_COUNT
                     /\ added.pipes = r

\* C39 witness: a process whose Add failed on its full registry has
\* exited, the zero entry in the last slot of the array after
\* MAX_PIPE_COUNT handles, and another process holds a registry that is
\* neither empty nor full
C39_Witness ==
  /\ \E p \in Procs :
       /\ proc[p].pc = "done"
       /\ proc[p].exit_code = ERROR_NO_SPACE_FOR_PIPES
       /\ proc[p].current_pipes.used = MAX_PIPE_COUNT
       /\ Len(proc[p].current_pipes.ids) = IdsSlots
       /\ proc[p].current_pipes.ids[IdsSlots] = Zero64
       /\ \A k \in 1..MAX_PIPE_COUNT : proc[p].current_pipes.ids[k] # Zero64
  /\ \E q \in Procs :
       /\ proc[q].current_pipes.used > 0
       /\ proc[q].current_pipes.used < MAX_PIPE_COUNT

====
